---- MODULE Spec2Model ----
(***************************************************************************)
(* Answer submission and vote tally of vecenetwork/backnew.                *)
(*                                                                         *)
(* The store is PostgreSQL reached through SQLAlchemy sessions, one per    *)
(* request, at READ COMMITTED.  A row carries the number of the session    *)
(* that inserted it and has not committed yet (0 once committed); pending  *)
(* UPDATEs live in the session until commit; row locks are kept in locks.  *)
(***************************************************************************)
EXTENDS Integers, Sequences, FiniteSets, TLC

\* ------------------------------------------------------------------ bounds
MaxClock == 2
MaxAnswerId == 2
MaxOptionId == 4
MaxQuestions == 2

Txs == {1, 2}
Users == {1, 2, 3}
QuestionIds == 1..MaxQuestions
OptionIds == 1..MaxOptionId
AnswerIds == 1..MaxAnswerId

VARIABLES
    clock,            \* the wall clock (half-year instants)
    questions,        \* table questions: id -> row
    question_options, \* table question_options: id -> row
    answers,          \* table answers: set of rows
    answer_options,   \* table answer_options: set of rows
    question_seq,     \* sequence questions_id_seq
    option_seq,       \* sequence question_options_id_seq
    answer_seq,       \* sequence answers_id_seq
    locks,            \* row locks held by open sessions
    tx,               \* the request handlers, one session each
    subscriptions,    \* table subscriptions: set of rows
    user_settings,    \* table user_settings: user id -> show_question_results
    question_hashtag_links, \* table question_hashtag_links: set of rows
    favourites        \* the rows of subscriptions whose favourite column is true

\* the follow edges, the privacy settings and the hashtags of the questions
social == <<subscriptions, user_settings, question_hashtag_links, favourites>>

vars == <<clock, questions, question_options, answers, answer_options,
          question_seq, option_seq, answer_seq, locks, tx, social>>

\* ------------------------------------------------------------- helpers
RECURSIVE SumOver(_, _)
SumOver(S, f) ==
    IF S = {} THEN 0
    ELSE LET x == CHOOSE y \in S : TRUE IN f[x] + SumOver(S \ {x}, f)

SeqToSet(s) == {s[i] : i \in 1..Len(s)}

Null == [null |-> TRUE, items |-> <<>>]
List(s) == [null |-> FALSE, items |-> s]
NullRange == [null |-> TRUE, lower |-> 0, upper |-> 0, bounds |-> "[)"]

\* ---------------------------------------------------------------- users
User(u) ==
    CASE u = 1 -> [id |-> 1, gender |-> "Male", country_id |-> 1, role |-> "user",
                   birthday |-> [year |-> 8, month |-> 7, day |-> 1]]
      [] u = 2 -> [id |-> 2, gender |-> "Female", country_id |-> 2, role |-> "user",
                   birthday |-> [year |-> 7, month |-> 1, day |-> 1]]
      [] OTHER -> [id |-> u, gender |-> "Female", country_id |-> 1, role |-> "admin",
                   birthday |-> [year |-> 6, month |-> 1, day |-> 1]]

\* datetime.now().date() at the given instant
Today(now) == [year |-> 10 + (now \div 2), month |-> IF now % 2 = 0 THEN 1 ELSE 7, day |-> 1]

\* today.year - birthday.year - ((today.month, today.day) < (birthday.month, birthday.day))
Age(today, birthday) ==
    today.year - birthday.year
      - (IF today.month < birthday.month
            \/ (today.month = birthday.month /\ today.day < birthday.day)
         THEN 1 ELSE 0)

\* ------------------------------------------------------- stored age range
\* PostgreSQL keeps an int4range in canonical form: lower bound inclusive,
\* upper bound exclusive.
Int4RangeCanonical(r) ==
    IF r.null THEN r
    ELSE [null |-> FALSE,
          lower |-> IF r.bounds \in {"(]", "()"} THEN r.lower + 1 ELSE r.lower,
          upper |-> IF r.bounds \in {"[]", "(]"} THEN r.upper + 1 ELSE r.upper,
          bounds |-> "[)"]

\* Range(question.age.start, question.age.end, bounds='[]')
AgeColumn(age) ==
    IF age.null THEN NullRange
    ELSE Int4RangeCanonical([null |-> FALSE, lower |-> age.start, upper |-> age.end,
                             bounds |-> "[]"])

\* QuestionORM.age_range: RangeModel(start=self.age.lower, end=self.age.upper)
age_range(age) ==
    IF age.null THEN [null |-> TRUE, start |-> 0, end |-> 0]
    ELSE [null |-> FALSE, start |-> age.lower, end |-> age.upper]

\* ------------------------------------------------------- eligibility
\* the country looked at before the gender
validate_country_first(user, question, today) ==
    IF Len(question.country_id.items) > 0
       /\ user.country_id \notin SeqToSet(question.country_id.items)
    THEN "country"
    ELSE IF Len(question.gender.items) > 0
            /\ user.gender \notin SeqToSet(question.gender.items)
    THEN "gender"
    ELSE IF ~question.age_range.null
            /\ (Age(today, user.birthday) < question.age_range.start
                \/ Age(today, user.birthday) > question.age_range.end)
    THEN "age"
    ELSE "ok"

\* AnswerService._validate_user_demographics: "ok" or the message of the
\* DemographicMismatchError it raises.  A None or empty list is falsy.
validate_user_demographics(user, question, today) ==
    IF Len(question.gender.items) > 0
       /\ user.gender \notin SeqToSet(question.gender.items)
    THEN "gender"
    ELSE IF Len(question.country_id.items) > 0
            /\ user.country_id \notin SeqToSet(question.country_id.items)
    THEN "country"
    ELSE IF ~question.age_range.null
            /\ (Age(today, user.birthday) < question.age_range.start
                \/ Age(today, user.birthday) > question.age_range.end)
    THEN "age"
    ELSE "ok"

\* AnswerService._validate_question_active: TRUE when QuestionExpiredError is raised
question_expired(question, now) == question.active_till < now

\* ------------------------------------------------------------- tables
NoQuestionRow ==
    [exists |-> FALSE, author_id |-> 0, max_options |-> 0, active_till |-> 0,
     allow_user_options |-> FALSE, gender |-> Null, country_id |-> Null,
     age |-> NullRange, total_answers |-> 0]

ZeroPercentage == [num |-> 0, den |-> 1]

NoOptionRow ==
    [exists |-> FALSE, question_id |-> 0, position |-> 0, author_id |-> 0,
     count |-> 0, percentage |-> ZeroPercentage, tx |-> 0]

\* rows a session sees at READ COMMITTED: committed ones and its own
Visible(row, t) == row.tx = 0 \/ row.tx = t

VisibleOptionIds(t) ==
    {o \in OptionIds : question_options[o].exists /\ Visible(question_options[o], t)}

OptionsOfQuestion(q, t) ==
    {o \in VisibleOptionIds(t) : question_options[o].question_id = q}

\* Question.model_validate(question_orm) with age_range read through the ORM property
QuestionView(q, t) ==
    [id |-> q,
     author_id |-> questions[q].author_id,
     max_options |-> questions[q].max_options,
     active_till |-> questions[q].active_till,
     allow_user_options |-> questions[q].allow_user_options,
     gender |-> questions[q].gender,
     country_id |-> questions[q].country_id,
     age_range |-> age_range(questions[q].age),
     positions |-> {question_options[o].position : o \in OptionsOfQuestion(q, t)}]

NoQuestionView ==
    [id |-> 0, author_id |-> 0, max_options |-> 0, active_till |-> 0,
     allow_user_options |-> FALSE, gender |-> Null, country_id |-> Null,
     age_range |-> age_range(NullRange), positions |-> {}]

\* ------------------------------------------------------------ row locks
\* PostgreSQL row-level lock modes and their conflicts
LockConflict(m1, m2) ==
    \/ m1 = "Update" \/ m2 = "Update"
    \/ (m1 = "NoKeyUpdate" /\ m2 \in {"NoKeyUpdate", "Share"})
    \/ (m2 = "NoKeyUpdate" /\ m1 \in {"NoKeyUpdate", "Share"})

Lock(t, tbl, id, mode) == [tx |-> t, tbl |-> tbl, id |-> id, mode |-> mode]

\* the sessions holding a conflicting lock on any row of the table
LockHoldersOfTable(t, tbl, ids, mode) ==
    {l.tx : l \in {k \in locks : /\ k.tx # t
                                 /\ k.tbl = tbl
                                 /\ LockConflict(k.mode, mode)}}

\* the sessions holding a lock on one of the rows that conflicts with mode
LockHolders(t, tbl, ids, mode) ==
    {l.tx : l \in {k \in locks : /\ k.tx # t
                                 /\ k.tbl = tbl
                                 /\ k.id \in ids
                                 /\ LockConflict(k.mode, mode)}}

\* ------------------------------------------------------------ sessions
IdleTx ==
    [pc |-> "idle", op |-> "none", question_id |-> 0, user |-> 0,
     options |-> <<>>, new_options |-> <<>>,
     question |-> NoQuestionView, new_option_creates |-> <<>>, new_option_ids |-> <<>>,
     all_option_ids |-> <<>>, new_answer_id |-> 0, total_answers |-> 0,
     all_options |-> {}, writes |-> {}, result |-> "none", detail |-> "",
     other_user_id |-> 0, is_active |-> "none", is_answered |-> "none",
     role |-> "none", feed |-> {},
     subscribed_to_id |-> 0, subscription_type |-> "none", is_favorite |-> FALSE,
     feed_type |-> "none", sort_order |-> "none", limit |-> 0, offset |-> 0,
     page |-> <<>>, count |-> 0]

Active(t) == tx[t].pc \notin {"idle", "done"}

\* the response of a finished handler stays readable until its session closes
Response(op, question_id, user, result, detail) ==
    [IdleTx EXCEPT !.pc = "done", !.op = op, !.question_id = question_id,
                   !.user = user, !.result = result, !.detail = detail]

DoneTx(t, result, detail) ==
    [Response(tx[t].op, tx[t].question_id, tx[t].user, result, detail)
        EXCEPT !.options = tx[t].options, !.new_options = tx[t].new_options]

\* the session ends without commit: its savepoint and transaction roll back
RollbackWith(t, error, detail) ==
    /\ question_options' =
         [o \in OptionIds |->
            IF question_options[o].exists /\ question_options[o].tx = t
            THEN NoOptionRow ELSE question_options[o]]
    /\ answers' = {a \in answers : a.tx # t}
    /\ answer_options' = {ao \in answer_options : ao.tx # t}
    /\ locks' = {l \in locks : l.tx # t}
    /\ tx' = [tx EXCEPT ![t] = DoneTx(t, error, detail)]
    /\ UNCHANGED <<clock, questions, question_seq, option_seq, answer_seq, social>>

Rollback(t, error) == RollbackWith(t, error, "")

Step(t, next) ==
    /\ tx' = [tx EXCEPT ![t] = next]
    /\ UNCHANGED <<clock, questions, question_options, answers, answer_options,
                   question_seq, option_seq, answer_seq, locks, social>>

\* Database.get_session: the response has gone out and the session is closed
close_session(t) ==
    /\ tx[t].pc = "done"
    /\ Step(t, IdleTx)

\* ------------------------------------------------- QuestionRepository.create
QuestionCreate(author, max_options, active_till, allow, gender, country_id, age, positions) ==
    [author_id |-> author, max_options |-> max_options, active_till |-> active_till,
     allow_user_options |-> allow, gender |-> gender, country_id |-> country_id,
     age |-> age, options |-> positions]

NoAge == [null |-> TRUE, start |-> 0, end |-> 0]
AgeOf(lo, hi) == [null |-> FALSE, start |-> lo, end |-> hi]

\* the row QuestionRepository.create stores for a QuestionCreate
QuestionRow(qc) ==
    [exists |-> TRUE, author_id |-> qc.author_id, max_options |-> qc.max_options,
     active_till |-> qc.active_till, allow_user_options |-> qc.allow_user_options,
     gender |-> qc.gender, country_id |-> qc.country_id,
     age |-> AgeColumn(qc.age), total_answers |-> 0]

CreateQuestion(qc) ==
    /\ question_seq < MaxQuestions
    /\ option_seq + Len(qc.options) <= MaxOptionId
    /\ question_seq' = question_seq + 1
    /\ option_seq' = option_seq + Len(qc.options)
    /\ questions' = [questions EXCEPT ![question_seq + 1] = QuestionRow(qc)]
    /\ question_options' =
         [o \in OptionIds |->
            IF o > option_seq /\ o <= option_seq + Len(qc.options)
            THEN [exists |-> TRUE, question_id |-> question_seq + 1,
                  position |-> qc.options[o - option_seq], author_id |-> qc.author_id,
                  count |-> 0, percentage |-> ZeroPercentage, tx |-> 0]
            ELSE question_options[o]]
    /\ UNCHANGED <<clock, answers, answer_options, answer_seq, locks, tx, social>>

Tick ==
    /\ clock < MaxClock
    /\ clock' = clock + 1
    /\ UNCHANGED <<questions, question_options, answers, answer_options,
                   question_seq, option_seq, answer_seq, locks, tx, social>>

\* ------------------------------------------------ AnswerService.create_answer
\* a submit that skips the look-up of an earlier answer
NoPrecheck(t, user_id, question_id) == FALSE

\* AnswerRepository.get_by_user_and_question finds a row
AnswerFound(t, user_id, question_id) ==
    \E a \in answers : Visible(a, t) /\ a.user_id = user_id /\ a.question_id = question_id

\* positions after the highest one in use, one per new option
AssignPositionsAtEnd(existing_positions, n) ==
    LET top == CHOOSE m \in existing_positions \cup {0} :
                  \A p \in existing_positions : p <= m
    IN [i \in 1..n |-> top + i]

\* the lowest free positions, one per new option (answers.py, the while loop)
RECURSIVE AssignPositions(_, _)
AssignPositions(existing_positions, n) ==
    IF n = 0 THEN <<>>
    ELSE LET pos == CHOOSE p \in 1..(Cardinality(existing_positions) + 1) :
                       /\ p \notin existing_positions
                       /\ \A r \in 1..(p - 1) : r \in existing_positions
         IN <<pos>> \o AssignPositions(existing_positions \cup {pos}, n - 1)

\* ids reserved by the handlers that are still running
ReservedAnswers == Cardinality({t \in Txs : Active(t)})
ReservedOptions ==
    SumOver({t \in Txs : Active(t)}, [t \in Txs |-> Len(tx[t].new_options)])

create_answer_begin(t, question_id, user, options, new_options) ==
    /\ tx[t].pc = "idle"
    /\ answer_seq + ReservedAnswers < MaxAnswerId
    /\ option_seq + ReservedOptions + Len(new_options) <= MaxOptionId
    /\ Step(t, [IdleTx EXCEPT !.pc = "precheck", !.op = "create_answer",
                              !.question_id = question_id,
                              !.user = user, !.options = options,
                              !.new_options = new_options])

\* answers.py 110-115
create_answer_precheck(t) ==
    /\ tx[t].pc = "precheck"
    /\ IF AnswerFound(t, tx[t].user, tx[t].question_id)
       THEN Rollback(t, "AlreadyAnswered")
       ELSE Step(t, [tx[t] EXCEPT !.pc = "get_question"])

\* answers.py 117-145
create_answer_get_question(t) ==
    /\ tx[t].pc = "get_question"
    /\ LET q == tx[t].question_id
           question == QuestionView(q, t)
           n == Len(tx[t].new_options)
       IN IF q \notin QuestionIds \/ ~questions[q].exists
          THEN Rollback(t, "Missing")
          ELSE IF question_expired(question, clock)
          THEN Rollback(t, "QuestionExpired")
          ELSE IF validate_user_demographics(User(tx[t].user), question, Today(clock)) # "ok"
          THEN RollbackWith(t, "DemographicMismatch",
                            validate_user_demographics(User(tx[t].user), question,
                                                       Today(clock)))
          ELSE IF n > 0 /\ ~question.allow_user_options
          THEN Rollback(t, "TooManyOptions")
          ELSE Step(t, [tx[t] EXCEPT
                          !.question = question,
                          !.new_option_creates = AssignPositions(question.positions, n),
                          !.pc = IF n > 0 THEN "create_option" ELSE "get_by_ids"])

\* QuestionService.create_option down to the flush: questions.py 191-203
create_option_get(t) ==
    /\ tx[t].pc = "create_option"
    /\ LET q == tx[t].question_id
           question == QuestionView(q, t)
           position == tx[t].new_option_creates[Len(tx[t].new_option_ids) + 1]
       IN IF position \in question.positions
          THEN Rollback(t, "ConfigurationError")
          ELSE IF ~question.allow_user_options /\ question.author_id # tx[t].user
          THEN Rollback(t, "CustomOptionsNotAllowed")
          ELSE Step(t, [tx[t] EXCEPT !.pc = "create_option_flush"])

\* create_option left at its default, commit=True
CreateOptionDefaultCommit == TRUE

\* create_option(question_id, new_option, user, commit=False)
CreateOptionCommit == FALSE

\* sessions whose uncommitted option holds the (question_id, position) key
PositionHolders(t, q, position) ==
    {question_options[o].tx :
        o \in {p \in OptionIds : /\ question_options[p].exists
                                 /\ question_options[p].tx \notin {0, t}
                                 /\ question_options[p].question_id = q
                                 /\ question_options[p].position = position}}

\* QuestionOptionRepository.create: INSERT under uq_question_position
create_option_flush(t) ==
    /\ tx[t].pc = "create_option_flush"
    /\ LET q == tx[t].question_id
           i == Len(tx[t].new_option_ids) + 1
           position == tx[t].new_option_creates[i]
           id == option_seq + 1
       IN /\ PositionHolders(t, q, position) = {}
          /\ IF position \in QuestionView(q, t).positions
             THEN Rollback(t, "IntegrityError")
             ELSE /\ option_seq' = id
                  /\ question_options' =
                       [question_options EXCEPT ![id] =
                          [exists |-> TRUE, question_id |-> q, position |-> position,
                           author_id |-> tx[t].user, count |-> 0,
                           percentage |-> ZeroPercentage,
                           tx |-> IF CreateOptionCommit THEN 0 ELSE t]]
                  /\ locks' = IF CreateOptionCommit THEN {l \in locks : l.tx # t}
                              ELSE locks \cup {Lock(t, "questions", q, "KeyShare")}
                  /\ tx' = [tx EXCEPT ![t] =
                              [tx[t] EXCEPT
                                 !.new_option_ids = Append(tx[t].new_option_ids, id),
                                 !.pc = IF i < Len(tx[t].new_option_creates)
                                        THEN "create_option" ELSE "get_by_ids"]]
                  /\ UNCHANGED <<clock, questions, answers, answer_options,
                                 question_seq, answer_seq, social>>

\* answers.py 154-169; QuestionOptionRepository.get_by_ids
create_answer_get_by_ids(t) ==
    /\ tx[t].pc = "get_by_ids"
    /\ LET all_option_ids == tx[t].options \o tx[t].new_option_ids
           ids == SeqToSet(tx[t].options)
       IN IF Len(all_option_ids) = 0
          THEN Rollback(t, "TooManyOptions")
          ELSE IF Len(all_option_ids) > tx[t].question.max_options
          THEN Rollback(t, "TooManyOptions")
          ELSE IF ids \ VisibleOptionIds(t) # {}
          THEN Rollback(t, "Missing")
          ELSE IF \E o \in ids : question_options[o].question_id # tx[t].question.id
          THEN Rollback(t, "OptionMismatch")
          ELSE Step(t, [tx[t] EXCEPT !.all_option_ids = all_option_ids,
                                     !.pc = "answer_create"])

\* sessions whose uncommitted answer holds the (question_id, user_id) key
AnswerKeyHolders(t, q, u) ==
    {a.tx : a \in {b \in answers : b.tx \notin {0, t} /\ b.question_id = q /\ b.user_id = u}}

\* AnswerRepository.create: add + flush, INSERT under uq_question_user
answer_create_flush(t) ==
    /\ tx[t].pc = "answer_create"
    /\ LET q == tx[t].question_id
           u == tx[t].user
           id == answer_seq + 1
       IN /\ AnswerKeyHolders(t, q, u) = {}
          /\ IF AnswerFound(t, u, q)
             THEN Rollback(t, "IntegrityError")
             ELSE /\ answer_seq' = id
                  /\ answers' = answers \cup
                       {[id |-> id, question_id |-> q, user_id |-> u, tx |-> t]}
                  /\ locks' = locks \cup {Lock(t, "questions", q, "KeyShare")}
                  /\ tx' = [tx EXCEPT ![t] = [tx[t] EXCEPT !.new_answer_id = id,
                                                            !.pc = "answer_options"]]
                  /\ UNCHANGED <<clock, questions, question_options, answer_options,
                                 question_seq, option_seq, social>>

\* AnswerRepository.create: insert(AnswerOptionORM).values(values); the foreign
\* key takes a KEY SHARE lock on every referenced option row
answer_create_options(t) ==
    /\ tx[t].pc = "answer_options"
    /\ LET ids == SeqToSet(tx[t].all_option_ids)
       IN /\ LockHolders(t, "question_options", ids, "KeyShare") = {}
          /\ IF Cardinality(ids) # Len(tx[t].all_option_ids) \/ ids \ VisibleOptionIds(t) # {}
             THEN Rollback(t, "IntegrityError")
             ELSE /\ answer_options' = answer_options \cup
                       {[answer_id |-> tx[t].new_answer_id, option_id |-> o, tx |-> t] :
                          o \in ids}
                  /\ locks' = locks \cup {Lock(t, "question_options", o, "KeyShare") : o \in ids}
                  /\ tx' = [tx EXCEPT ![t] = [tx[t] EXCEPT !.pc = "question_update"]]
                  /\ UNCHANGED <<clock, questions, question_options, answers,
                                 question_seq, option_seq, answer_seq, social>>

\* QuestionRepository.update(question_id, total_answers=QuestionORM.total_answers + 1)
question_update(t) ==
    /\ tx[t].pc = "question_update"
    /\ LET q == tx[t].question_id
       IN /\ LockHolders(t, "questions", {q}, "NoKeyUpdate") = {}
          /\ locks' = locks \cup {Lock(t, "questions", q, "NoKeyUpdate")}
          /\ tx' = [tx EXCEPT ![t] =
                      [tx[t] EXCEPT !.total_answers = questions[q].total_answers + 1,
                                    !.pc = "lock_options"]]
          /\ UNCHANGED <<clock, questions, question_options, answers, answer_options,
                         question_seq, option_seq, answer_seq, social>>

\* QuestionOptionRepository.get_by_question_id_with_lock: SELECT ... FOR UPDATE
get_by_question_id_with_lock(t) ==
    /\ tx[t].pc = "lock_options"
    /\ LET rows == OptionsOfQuestion(tx[t].question_id, t)
       IN /\ LockHolders(t, "question_options", rows, "Update") = {}
          /\ locks' = locks \cup {Lock(t, "question_options", o, "Update") : o \in rows}
          /\ tx' = [tx EXCEPT ![t] =
                      [tx[t] EXCEPT
                         !.all_options = {[id |-> o, count |-> question_options[o].count] :
                                            o \in rows},
                         !.pc = "option_update"]]
          /\ UNCHANGED <<clock, questions, question_options, answers, answer_options,
                         question_seq, option_seq, answer_seq, social>>

\* the total before the submission, the new selections left out
TotalSelectionsBefore(all_options, selected_option_ids) ==
    SumOver(all_options, [o \in all_options |-> o.count])

\* answers.py 184: sum(o.count for o in all_options) + len(selected_option_ids)
TotalSelections(all_options, selected_option_ids) ==
    SumOver(all_options, [o \in all_options |-> o.count]) + Cardinality(selected_option_ids)

\* every locked option incremented, selected or not
NewCountOfEveryOption(option, selected_option_ids) == option.count + 1

\* answers.py 188-190
NewCount(option, selected_option_ids) ==
    IF option.id \in selected_option_ids THEN option.count + 1 ELSE option.count

\* answers.py 192: new_count * 100.0 / total_selections, 0 when there is none
NewPercentage(new_count, total_selections) ==
    IF total_selections > 0 THEN [num |-> new_count * 100, den |-> total_selections]
    ELSE ZeroPercentage

\* answers.py 180-199: the write-back of every locked option
option_update(t) ==
    /\ tx[t].pc = "option_update"
    /\ LET selected_option_ids == SeqToSet(tx[t].all_option_ids)
           total_selections == TotalSelections(tx[t].all_options, selected_option_ids)
       IN Step(t, [tx[t] EXCEPT
                     !.writes = {[id |-> o.id,
                                  count |-> NewCount(o, selected_option_ids),
                                  percentage |->
                                     NewPercentage(NewCount(o, selected_option_ids),
                                                   total_selections)] :
                                   o \in tx[t].all_options},
                     !.pc = "commit"])

\* nested.commit(); db.commit()
create_answer_commit(t) ==
    /\ tx[t].pc = "commit"
    /\ questions' = [questions EXCEPT
                       ![tx[t].question_id].total_answers = tx[t].total_answers]
    /\ question_options' =
         [o \in OptionIds |->
            IF \E w \in tx[t].writes : w.id = o
            THEN LET w == CHOOSE x \in tx[t].writes : x.id = o
                 IN [question_options[o] EXCEPT !.count = w.count,
                                                !.percentage = w.percentage,
                                                !.tx = 0]
            ELSE IF question_options[o].tx = t
            THEN [question_options[o] EXCEPT !.tx = 0]
            ELSE question_options[o]]
    /\ answers' = {IF a.tx = t THEN [a EXCEPT !.tx = 0] ELSE a : a \in answers}
    /\ answer_options' =
         {IF ao.tx = t THEN [ao EXCEPT !.tx = 0] ELSE ao : ao \in answer_options}
    /\ locks' = {l \in locks : l.tx # t}
    /\ tx' = [tx EXCEPT ![t] = DoneTx(t, "ok", "")]
    /\ UNCHANGED <<clock, question_seq, option_seq, answer_seq, social>>

\* ------------------------------------------------------- lock waits
\* the sessions the next statement of t has to wait for
WaitsFor(t) ==
    CASE tx[t].pc = "create_option_flush" ->
           PositionHolders(t, tx[t].question_id,
                           tx[t].new_option_creates[Len(tx[t].new_option_ids) + 1])
      [] tx[t].pc = "answer_create" ->
           AnswerKeyHolders(t, tx[t].question_id, tx[t].user)
      [] tx[t].pc = "answer_options" ->
           LockHolders(t, "question_options", SeqToSet(tx[t].all_option_ids), "KeyShare")
      [] tx[t].pc = "question_update" ->
           LockHolders(t, "questions", {tx[t].question_id}, "NoKeyUpdate")
      [] tx[t].pc = "lock_options" ->
           LockHolders(t, "question_options", OptionsOfQuestion(tx[t].question_id, t),
                       "Update")
      [] OTHER -> {}

RECURSIVE WaitReach(_, _)
WaitReach(S, n) ==
    IF n = 0 THEN S
    ELSE WaitReach(S \cup UNION {WaitsFor(s) : s \in S}, n - 1)

InWaitCycle(t) == t \in WaitReach(WaitsFor(t), Cardinality(Txs))

\* PostgreSQL's deadlock detector aborts a session of the cycle
DeadlockAbort(t) ==
    /\ InWaitCycle(t)
    /\ Rollback(t, "DeadlockDetected")

\* ------------------------------------------------- AnswerService.delete_answer
CommittedAnswers == {a \in answers : a.tx = 0}
CommittedAnswerOptions == {ao \in answer_options : ao.tx = 0}

\* answers.py 237-240: TRUE when Unauthorized is raised
delete_answer_unauthorized(answer, question_author, user) ==
    /\ answer.user_id # user.id
    /\ (question_author # user.id \/ user.role # "admin")

Respond(t, op, question_id, u, result) ==
    /\ tx' = [tx EXCEPT ![t] = Response(op, question_id, u, result, "")]
    /\ UNCHANGED <<clock, questions, question_options, answers, answer_options,
                   question_seq, option_seq, answer_seq, locks, social>>

\* the outcome of a request about one answer
RespondAnswer(t, op, question_id, answer_id, u, result) ==
    /\ tx' = [tx EXCEPT ![t] = [Response(op, question_id, u, result, "")
                                   EXCEPT !.new_answer_id = answer_id]]
    /\ UNCHANGED <<clock, questions, question_options, answers, answer_options,
                   question_seq, option_seq, answer_seq, locks, social>>

\* a deletion that takes the deleted answer out of total_answers
delete_answer_decrement(t, question_id, answer_id, u) ==
    /\ tx[t].pc = "idle"
    /\ IF ~\E a \in CommittedAnswers : a.id = answer_id
       THEN RespondAnswer(t, "delete_answer", question_id, answer_id, u, "Missing")
       ELSE LET answer == CHOOSE a \in CommittedAnswers : a.id = answer_id
            IN IF answer.question_id # question_id
               THEN RespondAnswer(t, "delete_answer", question_id, answer_id, u,
                                  "ValueError")
               ELSE IF delete_answer_unauthorized(answer, questions[question_id].author_id,
                                                  User(u))
               THEN RespondAnswer(t, "delete_answer", question_id, answer_id, u,
                                  "Unauthorized")
               ELSE /\ answers' = answers \ {answer}
                    /\ answer_options' = {ao \in answer_options : ao.answer_id # answer_id}
                    /\ tx' = [tx EXCEPT ![t] =
                                [Response("delete_answer", question_id, u, "ok", "")
                                    EXCEPT !.new_answer_id = answer_id]]
                    /\ questions' = [questions EXCEPT ![question_id].total_answers = @ - 1]
                    /\ UNCHANGED <<clock, question_options, question_seq,
                                   option_seq, answer_seq, locks, social>>

\* answers.py 233-242 and AnswerRepository.delete (the ORM cascade removes the
\* answer_options rows of the answer)
delete_answer(t, question_id, answer_id, u) ==
    /\ tx[t].pc = "idle"
    /\ IF ~\E a \in CommittedAnswers : a.id = answer_id
       THEN RespondAnswer(t, "delete_answer", question_id, answer_id, u, "Missing")
       ELSE LET answer == CHOOSE a \in CommittedAnswers : a.id = answer_id
            IN IF answer.question_id # question_id
               THEN RespondAnswer(t, "delete_answer", question_id, answer_id, u,
                                  "ValueError")
               ELSE IF delete_answer_unauthorized(answer, questions[question_id].author_id,
                                                  User(u))
               THEN RespondAnswer(t, "delete_answer", question_id, answer_id, u,
                                  "Unauthorized")
               ELSE /\ answers' = answers \ {answer}
                    /\ answer_options' = {ao \in answer_options : ao.answer_id # answer_id}
                    /\ tx' = [tx EXCEPT ![t] =
                                [Response("delete_answer", question_id, u, "ok", "")
                                    EXCEPT !.new_answer_id = answer_id]]
                    /\ UNCHANGED <<clock, questions, question_options, question_seq,
                                   option_seq, answer_seq, locks, social>>

\* ---------------------------------------------- AnswerService.get_answer_by_id
\* answers.py 211-219; the question is the one named in the path
get_answer_by_id(t, question_id, answer_id, u) ==
    /\ tx[t].pc = "idle"
    /\ IF ~\E a \in CommittedAnswers : a.id = answer_id
       THEN RespondAnswer(t, "get_answer_by_id", question_id, answer_id, u, "Missing")
       ELSE LET answer == CHOOSE a \in CommittedAnswers : a.id = answer_id
            IN IF answer.user_id = u
               THEN RespondAnswer(t, "get_answer_by_id", question_id, answer_id, u, "ok")
               ELSE IF question_id \notin QuestionIds \/ ~questions[question_id].exists
               THEN RespondAnswer(t, "get_answer_by_id", question_id, answer_id, u,
                                  "Missing")
               ELSE IF delete_answer_unauthorized(answer, questions[question_id].author_id,
                                                  User(u))
               THEN RespondAnswer(t, "get_answer_by_id", question_id, answer_id, u,
                                  "Unauthorized")
               ELSE RespondAnswer(t, "get_answer_by_id", question_id, answer_id, u, "ok")

\* --------------------------------------------- AnswerService.add_answer_options
\* answers.py 244-264 and AnswerOptionRepository.bulk_create
add_answer_options(t, answer_id, option_ids, u) ==
    /\ tx[t].pc = "idle"
    /\ IF ~\E a \in CommittedAnswers : a.id = answer_id
       THEN Respond(t, "add_answer_options", 0, u, "Missing")
       ELSE LET answer == CHOOSE a \in CommittedAnswers : a.id = answer_id
                q == answer.question_id
                user == User(u)
                ids == SeqToSet(option_ids)
            IN IF answer.user_id # user.id /\ user.role # "admin"
               THEN Respond(t, "add_answer_options", q, u, "Unauthorized")
               ELSE IF Len(option_ids) > questions[q].max_options
               THEN Respond(t, "add_answer_options", q, u, "TooManyOptions")
               ELSE IF ids \ VisibleOptionIds(0) # {}
               THEN Respond(t, "add_answer_options", q, u, "Missing")
               ELSE IF \E o \in ids : question_options[o].question_id # q
               THEN Respond(t, "add_answer_options", q, u, "OptionMismatch")
               ELSE IF Len(option_ids) = 0
               THEN Respond(t, "add_answer_options", q, u, "ok")
               ELSE /\ LockHolders(0, "question_options", ids, "KeyShare") = {}
                    /\ IF \/ Cardinality(ids) # Len(option_ids)
                          \/ \E ao \in answer_options :
                                ao.answer_id = answer_id /\ ao.option_id \in ids
                       THEN Respond(t, "add_answer_options", q, u, "IntegrityError")
                       ELSE /\ answer_options' = answer_options \cup
                                 {[answer_id |-> answer_id, option_id |-> o, tx |-> 0] :
                                    o \in ids}
                            /\ tx' = [tx EXCEPT ![t] =
                                        Response("add_answer_options", q, u, "ok", "")]
                            /\ UNCHANGED <<clock, questions, question_options, answers,
                                           question_seq, option_seq, answer_seq, locks, social>>

\* ------------------------------------------------------------- requests
\* POST /questions bodies: the first question is open to everybody, the next
\* one is restricted, closes early and takes no custom options
QuestionCreates(id) ==
    IF id = 2
    THEN {QuestionCreate(2, 1, 1, FALSE, List(<<"Female">>), Null, AgeOf(2, 3), <<1>>)}
    ELSE {QuestionCreate(1, 2, MaxClock, TRUE, Null, Null, NoAge, <<1, 2>>)}

\* POST /questions bodies over every shape of the demographic filter
FilterCreates ==
    {QuestionCreate(1, 1, MaxClock, FALSE, gender, country_id, age, <<1>>) :
        gender \in {Null, List(<<>>), List(<<"Female">>), List(<<"Male", "Other">>)},
        country_id \in {Null, List(<<>>), List(<<1>>)},
        age \in {NoAge, AgeOf(2, 3), AgeOf(4, 4)}}

\* AnswerCreate bodies
AnswerCreate(options, new_options) == [options |-> options, new_options |-> new_options]

AnswerCreates ==
    {AnswerCreate(<<1>>, <<>>), AnswerCreate(<<1, 2>>, <<>>), AnswerCreate(<<3>>, <<>>),
     AnswerCreate(<<>>, <<"X">>), AnswerCreate(<<1, 2>>, <<"X">>), AnswerCreate(<<>>, <<>>),
     AnswerCreate(<<MaxOptionId>>, <<>>), AnswerCreate(<<1, 1>>, <<>>)}

PlainAnswerCreates == {AnswerCreate(<<1>>, <<>>), AnswerCreate(<<1, 2>>, <<>>)}

Quiet == \A t \in Txs : tx[t].pc = "idle"

\* ---------------------------------------------------------------- runs
Init ==
    /\ clock = 0
    /\ questions = [q \in QuestionIds |-> NoQuestionRow]
    /\ question_options = [o \in OptionIds |-> NoOptionRow]
    /\ answers = {}
    /\ answer_options = {}
    /\ question_seq = 0
    /\ option_seq = 0
    /\ answer_seq = 0
    /\ locks = {}
    /\ tx = [t \in Txs |-> IdleTx]
    /\ subscriptions = {}
    /\ user_settings = [u \in Users |-> "Nobody"]
    /\ question_hashtag_links = {}
    /\ favourites = {}

PostQuestion ==
    /\ Quiet
    /\ \E qc \in QuestionCreates(question_seq + 1) : CreateQuestion(qc)

PostAnswer(t) ==
    \E q \in 1..(MaxQuestions + 1), u \in Users, body \in AnswerCreates :
        create_answer_begin(t, q, u, body.options, body.new_options)

\* the statements of create_answer that need no custom option
PlainSteps(t) ==
    \/ create_answer_precheck(t)
    \/ create_answer_get_question(t)
    \/ create_answer_get_by_ids(t)
    \/ answer_create_flush(t)
    \/ answer_create_options(t)
    \/ question_update(t)
    \/ get_by_question_id_with_lock(t)
    \/ option_update(t)
    \/ create_answer_commit(t)

OptionSteps(t) ==
    \/ create_option_get(t)
    \/ create_option_flush(t)

DeleteAnswer(t) ==
    \E q \in QuestionIds, a \in AnswerIds, u \in Users : delete_answer(t, q, a, u)

AddAnswerOptions(t) ==
    \E a \in AnswerIds, u \in Users, body \in PlainAnswerCreates :
        add_answer_options(t, a, body.options, u)

\* one request at a time: questions, the clock and submissions of every kind
Next ==
    \/ PostQuestion
    \/ (Quiet /\ Tick)
    \/ (Quiet /\ PostAnswer(1))
    \/ PlainSteps(1)
    \/ OptionSteps(1)
    \/ close_session(1)

Spec == Init /\ [][Next]_vars

\* one request at a time: submissions, deletions and appended options
PostPlainAnswer(t) ==
    \E u \in Users, body \in PlainAnswerCreates :
        create_answer_begin(t, 1, u, body.options, body.new_options)

NextTally ==
    \/ PostQuestion
    \/ (Quiet /\ PostPlainAnswer(1))
    \/ PlainSteps(1)
    \/ (Quiet /\ DeleteAnswer(1))
    \/ (Quiet /\ AddAnswerOptions(1))
    \/ close_session(1)

SpecTally == Init /\ [][NextTally]_vars

\* the first question alone
PostFirstQuestion ==
    /\ question_seq = 0
    /\ \E qc \in QuestionCreates(1) : CreateQuestion(qc)

\* concurrent submissions to the first question, custom options included
ConcAnswerCreates ==
    {AnswerCreate(<<1>>, <<>>), AnswerCreate(<<1, 2>>, <<>>),
     AnswerCreate(<<>>, <<"X">>), AnswerCreate(<<2>>, <<"X">>)}

PostConcAnswer(t) ==
    \E u \in Users, body \in ConcAnswerCreates :
        create_answer_begin(t, 1, u, body.options, body.new_options)

NextConc ==
    \/ PostFirstQuestion
    \/ \E t \in Txs :
          \/ PostConcAnswer(t)
          \/ PlainSteps(t)
          \/ OptionSteps(t)
          \/ DeadlockAbort(t)
          \/ close_session(t)

SpecConc == Init /\ [][NextConc]_vars

\* two requests, each sent once, that are valid when they run alone
PostRaceAnswer(t) ==
    /\ questions[1].exists
    /\ \E u \in {1, 2}, body \in PlainAnswerCreates :
          create_answer_begin(t, 1, u, body.options, body.new_options)

NextRace ==
    \/ PostFirstQuestion
    \/ \E t \in Txs :
          \/ PostRaceAnswer(t)
          \/ PlainSteps(t)
          \/ DeadlockAbort(t)

SpecRace == Init /\ [][NextRace]_vars

\* one request at a time: questions over every filter shape, the clock, and
\* submissions of the first option
MaxFilterQuestions == 1

PostFilterQuestion ==
    /\ Quiet
    /\ question_seq < MaxFilterQuestions
    /\ \E qc \in FilterCreates : CreateQuestion(qc)

PostFirstOption(t) ==
    \E q \in QuestionIds, u \in Users : create_answer_begin(t, q, u, <<1>>, <<>>)

NextElig ==
    \/ PostFilterQuestion
    \/ (Quiet /\ Tick)
    \/ (Quiet /\ PostFirstOption(1))
    \/ PlainSteps(1)
    \/ close_session(1)

SpecElig == Init /\ [][NextElig]_vars

\* ------------------------------------------------------ committed state
CommittedOptions ==
    [o \in OptionIds |->
        IF question_options[o].tx = 0 THEN question_options[o] ELSE NoOptionRow]

\* what a new session reads: the committed rows
Committed == <<questions, CommittedOptions, CommittedAnswers, CommittedAnswerOptions>>

AnswersOf(question_id, user_id) ==
    {a \in answers : a.question_id = question_id /\ a.user_id = user_id}

SelectedBy(answer_id) ==
    {ao.option_id : ao \in {x \in CommittedAnswerOptions : x.answer_id = answer_id}}

\* the committed options of a question and the sum of their counts
CommittedOptionsOf(q) ==
    {o \in OptionIds : /\ question_options[o].exists
                       /\ question_options[o].tx = 0
                       /\ question_options[o].question_id = q}

CountSum(q) ==
    SumOver(CommittedOptionsOf(q), [o \in OptionIds |-> question_options[o].count])

\* the sum over the question's answers of the number of options each selected
SelectionSum(q) ==
    LET of_question == {a \in CommittedAnswers : a.question_id = q}
    IN SumOver(of_question,
               [a \in of_question |->
                  Cardinality({ao \in CommittedAnswerOptions : ao.answer_id = a.id})])

\* the POST /questions body, one of creates, that question q was stored from
DeclaredBy(q, creates) ==
    CHOOSE qc \in creates : QuestionRow(qc) = [questions[q] EXCEPT !.total_answers = 0]

\* the three dimensions of the filter as the author declared it; a dimension
\* left out or given as an empty list restricts nothing
GenderPasses(user, gender) ==
    Len(gender.items) = 0 \/ user.gender \in SeqToSet(gender.items)

CountryPasses(user, country_id) ==
    Len(country_id.items) = 0 \/ user.country_id \in SeqToSet(country_id.items)

AgePasses(user, age, today) ==
    age.null \/ (age.start <= Age(today, user.birthday) /\ Age(today, user.birthday) <= age.end)

\* the question of a running submit is there and still open
Answerable(t) ==
    /\ tx[t].question_id \in QuestionIds
    /\ questions[tx[t].question_id].exists
    /\ ~question_expired(questions[tx[t].question_id], clock)

\* ------------------------------------------------------------ properties
\* C1: a submit for a (question, respondent) pair that already has a committed
\* answer ends with AlreadyAnswered whatever it selects, leaves exactly one
\* answer for the pair and changes no count, percentage or total_answers.
C1_SecondSubmitAlreadyAnswered ==
    [][\A t \in Txs :
         (/\ tx[t].pc = "precheck"
          /\ tx'[t] # tx[t]
          /\ \E a \in CommittedAnswers :
                a.question_id = tx[t].question_id /\ a.user_id = tx[t].user)
         => /\ tx'[t].pc = "done"
            /\ tx'[t].result = "AlreadyAnswered"
            /\ Committed' = Committed
            /\ Cardinality(AnswersOf(tx[t].question_id, tx[t].user)') = 1]_vars

\* first [A], then [A, B] by the same respondent: A = 1, B = 0, 100% / 0%
C1_Witness ==
    /\ tx[1].pc = "done"
    /\ tx[1].op = "create_answer"
    /\ tx[1].result = "AlreadyAnswered"
    /\ tx[1].question_id = 1
    /\ tx[1].options = <<1, 2>>
    /\ \E a \in CommittedAnswers :
          /\ AnswersOf(1, tx[1].user) = {a}
          /\ SelectedBy(a.id) = {1}
    /\ question_options[1].count = 1
    /\ question_options[2].count = 0
    /\ question_options[1].percentage = [num |-> 100, den |-> 1]
    /\ question_options[2].percentage = [num |-> 0, den |-> 1]
    /\ questions[1].total_answers = 1

\* C2: after any sequence of committed submissions, concurrent ones included,
\* the counts of a question's options add up to the number of options its
\* answers selected.
C2_Conservation ==
    \A q \in QuestionIds : questions[q].exists => CountSum(q) = SelectionSum(q)

\* two answers to the first question, three selections between them
C2_Witness ==
    /\ Cardinality({a \in CommittedAnswers : a.question_id = 1}) = 2
    /\ SelectionSum(1) = 3
    /\ CountSum(1) = 3

\* C3: two distinct respondents submit concurrently to the same question and
\* each selects option A: once both requests have ended, A.count is 2 higher
\* than before (it was 0), whatever the interleaving.
C3_BothSelectionsCounted ==
    (/\ tx[1].pc = "done"
     /\ tx[2].pc = "done"
     /\ tx[1].question_id = tx[2].question_id
     /\ tx[1].user # tx[2].user
     /\ 1 \in SeqToSet(tx[1].options)
     /\ 1 \in SeqToSet(tx[2].options))
    => question_options[1].count = 2

\* C4: the same respondent submits twice concurrently to the same question:
\* one request commits and the other ends with AlreadyAnswered.
C4_LoserAlreadyAnswered ==
    (/\ tx[1].pc = "done"
     /\ tx[2].pc = "done"
     /\ tx[1].question_id = tx[2].question_id
     /\ tx[1].user = tx[2].user)
    => \E winner \in Txs, loser \in Txs :
          /\ winner # loser
          /\ tx[winner].result = "ok"
          /\ tx[loser].result = "AlreadyAnswered"

\* C5: a step of a submit other than its successful commit leaves the committed
\* state as it was, and a submit that has failed leaves no row of its own: no
\* answer, no answer option, no custom option created earlier in the call.
C5_FailedSubmitChangesNothing ==
    [][\A t \in Txs :
         (/\ tx[t].op = "create_answer"
          /\ Active(t)
          /\ tx'[t] # tx[t]
          /\ ~(tx'[t].pc = "done" /\ tx'[t].result = "ok"))
         => /\ Committed' = Committed
            /\ tx'[t].pc = "done" =>
                  /\ \A o \in OptionIds : question_options'[o].tx # t
                  /\ \A a \in answers' : a.tx # t
                  /\ \A ao \in answer_options' : ao.tx # t]_vars

\* a submit rejected after its custom option had been inserted
C5_Witness ==
    /\ tx[1].pc = "done"
    /\ tx[1].op = "create_answer"
    /\ tx[1].result = "TooManyOptions"
    /\ tx[1].options = <<1, 2>>
    /\ tx[1].new_options = <<"X">>
    /\ option_seq > Cardinality({o \in OptionIds : question_options[o].exists})
    /\ answers = {}
    /\ answer_options = {}

\* C6: with total the sum of the committed counts of a question's options,
\* total > 0, every option of the question has percentage count * 100 / total,
\* hence the percentages add up to 100.
C6_PercentageOfTotal ==
    \A q \in QuestionIds :
        LET total == CountSum(q)
        IN (questions[q].exists /\ total > 0) =>
              /\ \A o \in CommittedOptionsOf(q) :
                    question_options[o].percentage =
                        [num |-> question_options[o].count * 100, den |-> total]
              /\ SumOver(CommittedOptionsOf(q),
                         [o \in OptionIds |-> question_options[o].percentage.num])
                    = 100 * total

\* [A, B] then [A]: B, not selected by the latest submission, moved to 100/3
C6_Witness ==
    /\ \E t \in Txs : /\ tx[t].pc = "done"
                      /\ tx[t].result = "ok"
                      /\ tx[t].options = <<1>>
                      /\ tx[t].new_options = <<>>
    /\ question_options[1].count = 2
    /\ question_options[2].count = 1
    /\ question_options[1].percentage = [num |-> 200, den |-> 3]
    /\ question_options[2].percentage = [num |-> 100, den |-> 3]

\* C7: in every committed state reached by submit, delete_answer and
\* add_answer_options, the cached count of an option is the number of
\* answer_options rows that reference it.
C7_CountIsNumberOfRows ==
    \A o \in OptionIds :
        (question_options[o].exists /\ question_options[o].tx = 0) =>
            question_options[o].count =
                Cardinality({ao \in CommittedAnswerOptions : ao.option_id = o})

\* C8: a respondent whose profile does not satisfy the filter the author
\* declared is turned away with DemographicMismatch and has no answer to the
\* question afterwards.
C8_MismatchRejected ==
    [][\A t \in Txs :
         (/\ tx[t].pc = "get_question"
          /\ tx'[t] # tx[t]
          /\ Answerable(t)
          /\ LET qc == DeclaredBy(tx[t].question_id, QuestionCreates(tx[t].question_id))
                 user == User(tx[t].user)
             IN ~(/\ GenderPasses(user, qc.gender)
                  /\ CountryPasses(user, qc.country_id)
                  /\ AgePasses(user, qc.age, Today(clock))))
         => /\ tx'[t].pc = "done"
            /\ tx'[t].result = "DemographicMismatch"
            /\ AnswersOf(tx[t].question_id, tx[t].user)' = {}]_vars

\* C9: on the filter the evaluator is handed, the check passes exactly when the
\* gender, the country and the age dimension all pass; a dimension that is None
\* or an empty list never rejects; the reason reported is that of the first
\* failing dimension in the order gender, country, age.
C9_ThreeDimensions ==
    [][\A t \in Txs :
         (tx[t].pc = "get_question" /\ tx'[t] # tx[t] /\ Answerable(t))
         => LET question == QuestionView(tx[t].question_id, t)
                user == User(tx[t].user)
                gender == GenderPasses(user, question.gender)
                country == CountryPasses(user, question.country_id)
                age == AgePasses(user, question.age_range, Today(clock))
            IN /\ (tx'[t].result = "DemographicMismatch")
                     <=> ~(gender /\ country /\ age)
               /\ (tx'[t].result = "DemographicMismatch") =>
                     tx'[t].detail = IF ~gender THEN "gender"
                                     ELSE IF ~country THEN "country"
                                     ELSE "age"
               /\ (tx'[t].result # "DemographicMismatch") =>
                     tx'[t].pc = "get_by_ids"]_vars

\* gender and country both fail and the gender is the one reported, on a
\* question whose age dimension restricts nothing
C9_Witness ==
    /\ tx[1].pc = "done"
    /\ tx[1].result = "DemographicMismatch"
    /\ tx[1].detail = "gender"
    /\ questions[tx[1].question_id].age.null
    /\ ~GenderPasses(User(tx[1].user), questions[tx[1].question_id].gender)
    /\ ~CountryPasses(User(tx[1].user), questions[tx[1].question_id].country_id)

\* C10: for a question created with age range [lo, hi], stored by
\* QuestionRepository.create and read back through QuestionORM.age_range, a
\* respondent of age a who passes the gender and country dimensions is turned
\* away for the age exactly when a < lo or a > hi.
C10_InclusiveBounds ==
    [][\A t \in Txs :
         (tx[t].pc = "get_question" /\ tx'[t] # tx[t] /\ Answerable(t))
         => LET qc == DeclaredBy(tx[t].question_id, FilterCreates)
                user == User(tx[t].user)
            IN (GenderPasses(user, qc.gender) /\ CountryPasses(user, qc.country_id)) =>
                  ((tx'[t].result = "DemographicMismatch" /\ tx'[t].detail = "age")
                      <=> ~AgePasses(user, qc.age, Today(clock)))]_vars

\* C11: on a question that takes no custom options, a submit that carries new
\* option texts and has passed the idempotency, liveness and eligibility checks
\* fails with CustomOptionsNotAllowed, for the author of the question as for
\* anybody else, and no option or answer has been written.
C11_CustomOptionsRefused ==
    [][\A t \in Txs :
         (/\ tx[t].pc = "get_question"
          /\ tx'[t] # tx[t]
          /\ Answerable(t)
          /\ ~questions[tx[t].question_id].allow_user_options
          /\ Len(tx[t].new_options) > 0
          /\ validate_user_demographics(User(tx[t].user),
                                        QuestionView(tx[t].question_id, t),
                                        Today(clock)) = "ok")
         => /\ tx'[t].pc = "done"
            /\ tx'[t].result = "CustomOptionsNotAllowed"
            /\ Committed' = Committed
            /\ option_seq' = option_seq
            /\ \A o \in OptionIds : question_options'[o].tx # t
            /\ \A a \in answers' : a.tx # t]_vars

\* ------------------------------------------------------- selection size
\* one open question without filter, of either ceiling, and submissions whose
\* selection is empty, plain, repeated or too long, with and without a new text
SizeCreates ==
    {QuestionCreate(1, max_options, MaxClock, TRUE, Null, Null, NoAge, <<1, 2>>) :
        max_options \in 1..2}

SizeAnswerCreates ==
    {AnswerCreate(options, new_options) :
        options \in {<<>>, <<1>>, <<1, 1>>, <<1, 2>>, <<2, 1, 2>>},
        new_options \in {<<>>, <<"X">>}}

PostSizeQuestion ==
    /\ question_seq = 0
    /\ \E qc \in SizeCreates : CreateQuestion(qc)

PostSizeAnswer(t) ==
    /\ questions[1].exists
    /\ \E u \in Users, body \in SizeAnswerCreates :
          create_answer_begin(t, 1, u, body.options, body.new_options)

NextSize ==
    \/ PostSizeQuestion
    \/ (Quiet /\ PostSizeAnswer(1))
    \/ PlainSteps(1)
    \/ OptionSteps(1)
    \/ close_session(1)

SpecSize == Init /\ [][NextSize]_vars

\* C12: once the custom options of a submit are created, the submit fails with
\* TooManyOptions exactly when the set of the selected ids and the new ids is
\* empty or has more than max_options members; a repeated id counts once.
C12_SizeOfDistinctIds ==
    [][\A t \in Txs :
         (tx[t].pc = "get_by_ids" /\ tx'[t] # tx[t])
         => LET all_option_ids ==
                    SeqToSet(tx[t].options) \cup SeqToSet(tx[t].new_option_ids)
            IN (tx'[t].pc = "done" /\ tx'[t].result = "TooManyOptions")
                  <=> \/ all_option_ids = {}
                      \/ Cardinality(all_option_ids) > tx[t].question.max_options]_vars

\* C13: a submit that reaches the ownership check with a selected id that is
\* not an option of the question answered, be it an option of another question
\* or of none, fails with OptionMismatch and stores no answer; and every
\* answer_options row references an option of its answer's own question.
C13_ForeignOptionRefused ==
    [][/\ \A t \in Txs :
            (/\ tx[t].pc = "get_by_ids"
             /\ tx'[t] # tx[t]
             /\ Len(tx[t].options) + Len(tx[t].new_option_ids) \in
                   1..tx[t].question.max_options
             /\ \E o \in SeqToSet(tx[t].options) :
                   \/ o \notin VisibleOptionIds(t)
                   \/ question_options[o].question_id # tx[t].question_id)
            => /\ tx'[t].pc = "done"
               /\ tx'[t].result = "OptionMismatch"
               /\ AnswersOf(tx[t].question_id, tx[t].user)' = {}
       /\ \A ao \in CommittedAnswerOptions' :
            \E a \in CommittedAnswers' :
               /\ a.id = ao.answer_id
               /\ question_options'[ao.option_id].exists
               /\ question_options'[ao.option_id].question_id = a.question_id]_vars

\* ------------------------------------------------------ order of checks
\* the checks of a submit in their order, each with the error it reports;
\* "none" when all of them pass
FirstFailingCheck(t, creates) ==
    LET q == tx[t].question_id
        user == User(tx[t].user)
        qc == DeclaredBy(q, creates)
        selected == SeqToSet(tx[t].options)
    IN IF \E a \in CommittedAnswers : a.question_id = q /\ a.user_id = user.id
       THEN "AlreadyAnswered"
       ELSE IF clock > qc.active_till
       THEN "QuestionExpired"
       ELSE IF ~(/\ GenderPasses(user, qc.gender)
                 /\ CountryPasses(user, qc.country_id)
                 /\ AgePasses(user, qc.age, Today(clock)))
       THEN "DemographicMismatch"
       ELSE IF Len(tx[t].new_options) > 0 /\ ~qc.allow_user_options
       THEN "CustomOptionsNotAllowed"
       ELSE IF \/ Cardinality(selected) + Len(tx[t].new_options) = 0
               \/ Cardinality(selected) + Len(tx[t].new_options) > qc.max_options
       THEN "TooManyOptions"
       ELSE IF \E o \in selected :
                  \/ ~question_options[o].exists
                  \/ question_options[o].tx # 0
                  \/ question_options[o].question_id # q
       THEN "OptionMismatch"
       ELSE "none"

\* C14: a submit to an existing question reports the error of the first check
\* that fails in the order idempotency, liveness, eligibility, custom options,
\* selection size, ownership.
C14_FirstFailingCheckReported ==
    [][\A t \in Txs :
         (/\ tx[t].op = "create_answer"
          /\ tx[t].pc \in {"precheck", "get_question", "get_by_ids"}
          /\ tx[t].question_id \in QuestionIds
          /\ questions[tx[t].question_id].exists
          /\ tx'[t].pc = "done"
          /\ FirstFailingCheck(t, QuestionCreates(tx[t].question_id)) # "none")
         => tx'[t].result =
               FirstFailingCheck(t, QuestionCreates(tx[t].question_id))]_vars

\* ------------------------------------------------- access to an answer
\* questions of any author, open to everybody, one option each
AccessCreates ==
    {QuestionCreate(author, 1, MaxClock, FALSE, Null, Null, NoAge, <<1>>) :
        author \in Users}

PostAccessQuestion ==
    /\ Quiet
    /\ \E qc \in AccessCreates : CreateQuestion(qc)

\* the option of the q-th question has id q
PostAccessAnswer(t) ==
    \E q \in QuestionIds, u \in Users : create_answer_begin(t, q, u, <<q>>, <<>>)

GetAnswer(t) ==
    \E q \in QuestionIds, a \in AnswerIds, u \in Users : get_answer_by_id(t, q, a, u)

NextAccess ==
    \/ PostAccessQuestion
    \/ (Quiet /\ PostAccessAnswer(1))
    \/ PlainSteps(1)
    \/ (Quiet /\ GetAnswer(1))
    \/ (Quiet /\ DeleteAnswer(1))
    \/ close_session(1)

SpecAccess == Init /\ [][NextAccess]_vars

\* the requester is the respondent, the author of the answer's question, or
\* an admin
MayAccess(answer, u) ==
    \/ answer.user_id = u
    \/ questions[answer.question_id].author_id = u
    \/ User(u).role = "admin"

\* C15: the fetch of an existing answer under its own question succeeds exactly
\* when the requester is the respondent, the author of the question or an
\* admin, each alone being enough; anybody else gets Unauthorized.
C15_FetchByRespondentAuthorAdmin ==
    \A t \in Txs :
       (/\ tx[t].pc = "done"
        /\ tx[t].op = "get_answer_by_id"
        /\ \E a \in CommittedAnswers :
              a.id = tx[t].new_answer_id /\ a.question_id = tx[t].question_id)
       => LET answer == CHOOSE a \in CommittedAnswers : a.id = tx[t].new_answer_id
          IN IF MayAccess(answer, tx[t].user)
             THEN tx[t].result = "ok"
             ELSE tx[t].result = "Unauthorized"

\* C16: the deletion of an existing answer under its own question removes the
\* answer and its answer_options rows exactly when the requester is the
\* respondent, the author of the question or an admin, each alone being
\* enough; for anybody else it fails with Unauthorized and the rows stay.
C16_DeleteByRespondentAuthorAdmin ==
    [][\A t \in Txs, answer \in CommittedAnswers :
         (/\ tx[t].pc = "idle"
          /\ tx'[t].pc = "done"
          /\ tx'[t].op = "delete_answer"
          /\ tx'[t].new_answer_id = answer.id
          /\ tx'[t].question_id = answer.question_id)
         => IF MayAccess(answer, tx'[t].user)
            THEN /\ tx'[t].result = "ok"
                 /\ answer \notin answers'
                 /\ \A ao \in answer_options' : ao.answer_id # answer.id
            ELSE /\ tx'[t].result = "Unauthorized"
                 /\ answers' = answers
                 /\ answer_options' = answer_options]_vars

\* ------------------------------------------------------------ follow graph
\* ShowQuestionResultsEnum
ShowQuestionResults ==
    {"Nobody", "People I Follow", "People Following Me", "All Connections", "All"}

Subscription(subscriber_id, subscribed_to_id, subscribed_to_type) ==
    [subscriber_id |-> subscriber_id, subscribed_to_id |-> subscribed_to_id,
     subscribed_to_type |-> subscribed_to_type]

\* SubscriptionRepository.subscribe without the favourite mark; a second row
\* for the same edge violates unique_subscription and changes nothing
subscribe(user, subscribed_to_id, subscription_type) ==
    /\ Subscription(user, subscribed_to_id, subscription_type) \notin subscriptions
    /\ subscriptions' = subscriptions \cup
                           {Subscription(user, subscribed_to_id, subscription_type)}
    /\ UNCHANGED <<clock, questions, question_options, answers, answer_options,
                   question_seq, option_seq, answer_seq, locks, tx,
                   user_settings, question_hashtag_links, favourites>>

\* UserSettingsRepository.update_settings of show_question_results
update_settings(user_id, show_question_results) ==
    /\ user_settings[user_id] # show_question_results
    /\ user_settings' = [user_settings EXCEPT ![user_id] = show_question_results]
    /\ UNCHANGED <<clock, questions, question_options, answers, answer_options,
                   question_seq, option_seq, answer_seq, locks, tx,
                   subscriptions, question_hashtag_links, favourites>>

\* ------------------------------------------------------------------ feeds
\* the optional boolean filters of a feed request
OptionalBool == {"true", "false", "none"}

\* QuestionRepository._add_demography_conditions on a questions row: the age
\* against the stored int4range (<@), the gender and the country against the
\* stored arrays (@>)
demography_conditions(current_user, question, today) ==
    /\ \/ question.age.null
       \/ /\ question.age.lower <= Age(today, current_user.birthday)
          /\ Age(today, current_user.birthday) < question.age.upper
    /\ \/ question.gender.null
       \/ current_user.gender \in SeqToSet(question.gender.items)
    /\ \/ question.country_id.null
       \/ current_user.country_id \in SeqToSet(question.country_id.items)

\* the outer joins of _add_privacy_conditions find a row:
\* the current user follows the author
author_follower(current_user_id, other_user_id) ==
    \E s \in subscriptions : /\ s.subscriber_id = current_user_id
                             /\ s.subscribed_to_id = other_user_id
                             /\ s.subscribed_to_type = "user"

\* the author follows the current user
author_following(current_user_id, other_user_id) ==
    \E s \in subscriptions : /\ s.subscriber_id = other_user_id
                             /\ s.subscribed_to_id = current_user_id
                             /\ s.subscribed_to_type = "user"

\* the two follow directions taken for one another
privacy_condition_swapped(show_question_results, follower, following) ==
    \/ show_question_results = "All"
    \/ show_question_results = "People I Follow" /\ follower
    \/ show_question_results = "People Following Me" /\ following
    \/ show_question_results = "All Connections" /\ (follower \/ following)

\* QuestionRepository._add_privacy_conditions: privacy_condition
privacy_condition(show_question_results, follower, following) ==
    \/ show_question_results = "All"
    \/ show_question_results = "People I Follow" /\ following
    \/ show_question_results = "People Following Me" /\ follower
    \/ show_question_results = "All Connections" /\ (follower \/ following)

\* the privacy condition on the rows joined for a viewer and an author
privacy_conditions(current_user_id, other_user_id, author_id) ==
    privacy_condition(user_settings[author_id],
                      author_follower(current_user_id, other_user_id),
                      author_following(current_user_id, other_user_id))

\* the outcome of a feed request: the question ids selected before pagination
FeedResponse(op, user, other_user_id, is_active, is_answered, role, feed) ==
    [Response(op, 0, user, "ok", "")
        EXCEPT !.other_user_id = other_user_id, !.is_active = is_active,
               !.is_answered = is_answered, !.role = role, !.feed = feed]

RespondFeed(t, response) ==
    /\ tx[t].pc = "idle"
    /\ tx' = [tx EXCEPT ![t] = response]
    /\ UNCHANGED <<clock, questions, question_options, answers, answer_options,
                   question_seq, option_seq, answer_seq, locks, social>>

\* QuestionRepository.get_other_feed_paginated: the rows the WHERE clause keeps
other_feed(current_user, other_user_id, is_active, now) ==
    {q \in QuestionIds :
        /\ questions[q].exists
        /\ questions[q].author_id = other_user_id
        /\ demography_conditions(current_user, questions[q], Today(now))
        /\ CASE is_active = "true" -> questions[q].active_till > now
             [] is_active = "false" ->
                   /\ questions[q].active_till <= now
                   /\ privacy_conditions(current_user.id, other_user_id,
                                         questions[q].author_id)
             [] OTHER ->
                   \/ questions[q].active_till > now
                   \/ /\ questions[q].active_till <= now
                      /\ privacy_conditions(current_user.id, other_user_id,
                                            questions[q].author_id)}

get_other_feed_paginated(t, u, other_user_id, is_active) ==
    RespondFeed(t, FeedResponse("get_other_feed", u, other_user_id, is_active, "none",
                                "none",
                                other_feed(User(u), other_user_id, is_active, clock)))

\* ------------------------------------------------------------ other feed
\* questions of user 2, closing at instant 0 or 1, for everybody or for women
MaxFeedQuestions == 2

OtherCreates ==
    {QuestionCreate(2, 1, active_till, FALSE, gender, Null, NoAge, <<1>>) :
        active_till \in 0..1, gender \in {Null, List(<<"Female">>)}}

PostOtherQuestion ==
    /\ Quiet
    /\ question_seq < MaxFeedQuestions
    /\ \E qc \in OtherCreates : CreateQuestion(qc)

\* follow edges between users 1 and 2, and edges to the hashtags of the same ids
SubscribeOther ==
    \E u \in {1, 2}, type \in {"user", "hashtag"} : subscribe(u, 3 - u, type)

UpdateAuthorSettings ==
    \E s \in ShowQuestionResults : update_settings(2, s)

GetOtherFeed(t) ==
    \E u \in {1, 3}, other_user_id \in {2, 3}, is_active \in OptionalBool :
        get_other_feed_paginated(t, u, other_user_id, is_active)

NextOther ==
    \/ PostOtherQuestion
    \/ (Quiet /\ Tick)
    \/ (Quiet /\ SubscribeOther)
    \/ (Quiet /\ UpdateAuthorSettings)
    \/ GetOtherFeed(1)
    \/ close_session(1)

SpecOther == Init /\ [][NextOther]_vars

\* the decision table of the visibility of expired results
visible(author_result_setting, viewer_follows_author, author_follows_viewer) ==
    CASE author_result_setting = "All" -> TRUE
      [] author_result_setting = "Nobody" -> FALSE
      [] author_result_setting = "People I Follow" -> author_follows_viewer
      [] author_result_setting = "People Following Me" -> viewer_follows_author
      [] author_result_setting = "All Connections" ->
            viewer_follows_author \/ author_follows_viewer

Follows(a, b) == Subscription(a, b, "user") \in subscriptions

\* C17: for every viewer and author, whatever the setting of the author and the
\* follow edges between the two, the privacy condition of the other feed is:
\* All always, Nobody never, People I Follow iff the author follows the viewer,
\* People Following Me iff the viewer follows the author, All Connections iff
\* either follows the other.
C17_VisibilityTable ==
    \A viewer \in Users, author \in Users :
       privacy_conditions(viewer, author, author)
          = visible(user_settings[author], Follows(viewer, author),
                    Follows(author, viewer))

\* the author shows results to the people they follow, follows the viewer and
\* is not followed back: the expired question is in the viewer's feed
C17_Witness ==
    /\ tx[1].pc = "done"
    /\ tx[1].op = "get_other_feed"
    /\ tx[1].is_active = "false"
    /\ tx[1].user = 1
    /\ tx[1].other_user_id = 2
    /\ user_settings[2] = "People I Follow"
    /\ Follows(2, 1)
    /\ ~Follows(1, 2)
    /\ Subscription(1, 2, "hashtag") \in subscriptions
    /\ tx[1].feed # {}

\* C18: in the other feed of a target for a viewer, a question of the target
\* that is still open and for which the viewer is eligible is listed whatever
\* the target's setting, unless the request asks for closed questions only;
\* and an expired question is listed only if the visibility table permits the
\* viewer and the request does not ask for open questions only.
C18_PrivacyGatesExpiredOnly ==
    \A t \in Txs :
       (tx[t].pc = "done" /\ tx[t].op = "get_other_feed")
       => \A q \in QuestionIds :
             (questions[q].exists /\ questions[q].author_id = tx[t].other_user_id)
             => LET qc == DeclaredBy(q, OtherCreates)
                    viewer == User(tx[t].user)
                    eligible == /\ GenderPasses(viewer, qc.gender)
                                /\ CountryPasses(viewer, qc.country_id)
                                /\ AgePasses(viewer, qc.age, Today(clock))
                    expired == clock > qc.active_till
                    permitted == visible(user_settings[qc.author_id],
                                         Follows(viewer.id, qc.author_id),
                                         Follows(qc.author_id, viewer.id))
                IN /\ (~expired /\ eligible /\ tx[t].is_active # "false")
                         => q \in tx[t].feed
                   /\ (expired /\ q \in tx[t].feed)
                         => (permitted /\ tx[t].is_active # "true")

\* ----------------------------------------------------------- default feed
HashtagLink(question_id, hashtag_id) ==
    [question_id |-> question_id, hashtag_id |-> hashtag_id]

\* QuestionService.create_question: the hashtags of the question just created
\* are linked after QuestionRepository.create has committed
bulk_create(hashtag_ids, question_id) ==
    /\ question_id = question_seq
    /\ question_id \in QuestionIds
    /\ \A l \in question_hashtag_links : l.question_id # question_id
    /\ question_hashtag_links' =
          question_hashtag_links \cup {HashtagLink(question_id, h) : h \in hashtag_ids}
    /\ UNCHANGED <<clock, questions, question_options, answers, answer_options,
                   question_seq, option_seq, answer_seq, locks, tx,
                   subscriptions, user_settings, favourites>>

\* get_default_feed_paginated: follow_condition on the joined rows
follow_condition(current_user_id, q) ==
    \/ \E l \in question_hashtag_links, s \in subscriptions :
          /\ l.question_id = q
          /\ l.hashtag_id = s.subscribed_to_id
          /\ s.subscribed_to_type = "hashtag"
          /\ s.subscriber_id = current_user_id
    \/ \E s \in subscriptions :
          /\ questions[q].author_id = s.subscribed_to_id
          /\ s.subscribed_to_type = "user"
          /\ s.subscriber_id = current_user_id

\* QuestionRepository._add_active_filter
active_filter(question, is_active, now) ==
    CASE is_active = "true" -> question.active_till > now
      [] is_active = "false" -> question.active_till <= now
      [] OTHER -> TRUE

\* QuestionRepository.get_default_feed_paginated: the rows the WHERE clause keeps
default_feed(current_user, is_answered, is_active, now) ==
    {q \in QuestionIds :
        /\ questions[q].exists
        /\ follow_condition(current_user.id, q)
        /\ demography_conditions(current_user, questions[q], Today(now))
        /\ is_answered = "false" =>
              ~\E a \in CommittedAnswers :
                    a.question_id = q /\ a.user_id = current_user.id
        /\ active_filter(questions[q], is_active, now)}

get_default_feed_paginated(t, u, is_answered, is_active) ==
    RespondFeed(t, FeedResponse("get_default_feed", u, 0, is_active, is_answered, "none",
                                default_feed(User(u), is_answered, is_active, clock)))

\* questions of user 2, closing at instant 1, for everybody or for women,
\* with one option each
DefaultCreates ==
    {QuestionCreate(2, 1, 1, FALSE, gender, Null, NoAge, <<1>>) :
        gender \in {Null, List(<<"Female">>)}}

PostDefaultQuestion ==
    /\ Quiet
    /\ question_seq < MaxFeedQuestions
    /\ \E qc \in DefaultCreates : CreateQuestion(qc)

LinkHashtags ==
    \E hashtag_ids \in {{1}, {1, 2}} : bulk_create(hashtag_ids, question_seq)

\* user 1 follows the author or a hashtag; user 3 follows the author
SubscribeDefault ==
    \/ subscribe(1, 2, "user")
    \/ \E h \in 1..2 : subscribe(1, h, "hashtag")
    \/ subscribe(3, 2, "user")

\* the option of the q-th question has id q
PostDefaultAnswer(t) ==
    \E q \in QuestionIds : create_answer_begin(t, q, 1, <<q>>, <<>>)

GetDefaultFeed(t) ==
    \E is_answered \in OptionalBool, is_active \in OptionalBool :
        get_default_feed_paginated(t, 1, is_answered, is_active)

NextDefault ==
    \/ PostDefaultQuestion
    \/ (Quiet /\ LinkHashtags)
    \/ (Quiet /\ Tick)
    \/ (Quiet /\ SubscribeDefault)
    \/ (Quiet /\ PostDefaultAnswer(1))
    \/ PlainSteps(1)
    \/ GetDefaultFeed(1)
    \/ close_session(1)

SpecDefault == Init /\ [][NextDefault]_vars

\* C19: the default feed of a viewer holds exactly the questions whose author
\* or one of whose hashtags the viewer follows, for which the viewer is
\* eligible, and which pass the filters of the request: not answered by the
\* viewer under is_answered=false, not expired under is_active=true, expired
\* under is_active=false.
C19_DefaultFeedMembership ==
    \A t \in Txs :
       (tx[t].pc = "done" /\ tx[t].op = "get_default_feed")
       => tx[t].feed =
             {q \in QuestionIds :
                 /\ questions[q].exists
                 /\ LET qc == DeclaredBy(q, DefaultCreates)
                        viewer == User(tx[t].user)
                        expired == clock > qc.active_till
                    IN /\ \/ Follows(viewer.id, qc.author_id)
                          \/ \E h \in 1..2 :
                                /\ HashtagLink(q, h) \in question_hashtag_links
                                /\ Subscription(viewer.id, h, "hashtag") \in subscriptions
                       /\ GenderPasses(viewer, qc.gender)
                       /\ CountryPasses(viewer, qc.country_id)
                       /\ AgePasses(viewer, qc.age, Today(clock))
                       /\ tx[t].is_answered = "false" =>
                             AnswersOf(q, viewer.id) \cap CommittedAnswers = {}
                       /\ tx[t].is_active = "true" => ~expired
                       /\ tx[t].is_active = "false" => expired}

\* ---------------------------------------------------------------- me feed
UserRoleEnum == {"all", "author", "respondent"}

NoAnswerId == 0

\* the rows <<question id, answer id>> of questions joined with answers;
\* the outer join keeps a question without answers with a NULL answer
QuestionAnswerRows(outer) ==
    {<<a.question_id, a.id>> : a \in CommittedAnswers}
    \cup {<<q, NoAnswerId>> : q \in {x \in QuestionIds :
                                      outer /\ \A a \in CommittedAnswers : a.question_id # x}}

AnswerOfRow(row) == CHOOSE a \in CommittedAnswers : a.id = row[2]

\* the me feed with the demography conditions of the other feeds applied
me_feed_rows_demography(current_user, role) ==
    {row \in QuestionAnswerRows(role = "all") :
        /\ questions[row[1]].exists
        /\ demography_conditions(current_user, questions[row[1]], Today(clock))
        /\ CASE role = "author" -> questions[row[1]].author_id = current_user.id
             [] role = "respondent" -> AnswerOfRow(row).user_id = current_user.id
             [] OTHER -> \/ questions[row[1]].author_id = current_user.id
                         \/ /\ row[2] # NoAnswerId
                            /\ AnswerOfRow(row).user_id = current_user.id}

\* QuestionRepository.get_me_feed_paginated: the rows the statement selects
me_feed_rows(current_user, role) ==
    CASE role = "author" ->
           {row \in {<<q, NoAnswerId>> : q \in QuestionIds} :
               /\ questions[row[1]].exists
               /\ questions[row[1]].author_id = current_user.id}
      [] role = "respondent" ->
           {row \in QuestionAnswerRows(FALSE) :
               /\ questions[row[1]].exists
               /\ AnswerOfRow(row).user_id = current_user.id}
      [] OTHER ->
           {row \in QuestionAnswerRows(TRUE) :
               /\ questions[row[1]].exists
               /\ \/ questions[row[1]].author_id = current_user.id
                  \/ /\ row[2] # NoAnswerId
                     /\ AnswerOfRow(row).user_id = current_user.id}

\* the questions of the selected rows
me_feed(current_user, role) ==
    {row[1] : row \in me_feed_rows(current_user, role)}

get_me_feed_paginated(t, u, role) ==
    RespondFeed(t, FeedResponse("get_me_feed", u, 0, "none", "none", role,
                                me_feed(User(u), role)))

\* questions of users 1 and 2, closing at instant 1, for everybody or for
\* women, with one option each
MeCreates ==
    {QuestionCreate(author_id, 1, 1, FALSE, gender, Null, NoAge, <<1>>) :
        author_id \in {1, 2}, gender \in {Null, List(<<"Female">>)}}

PostMeQuestion ==
    /\ Quiet
    /\ question_seq < MaxFeedQuestions
    /\ \E qc \in MeCreates : CreateQuestion(qc)

\* the option of the q-th question has id q
PostMeAnswer(t) ==
    \E u \in {1, 2}, q \in QuestionIds : create_answer_begin(t, q, u, <<q>>, <<>>)

GetMeFeed(t) ==
    \E u \in {1, 2}, role \in UserRoleEnum : get_me_feed_paginated(t, u, role)

NextMe ==
    \/ PostMeQuestion
    \/ (Quiet /\ Tick)
    \/ (Quiet /\ PostMeAnswer(1))
    \/ PlainSteps(1)
    \/ GetMeFeed(1)
    \/ close_session(1)

SpecMe == Init /\ [][NextMe]_vars

Authored(u) ==
    {q \in QuestionIds : questions[q].exists /\ questions[q].author_id = u}

Answered(u) ==
    {q \in QuestionIds : questions[q].exists /\ AnswersOf(q, u) \cap CommittedAnswers # {}}

\* C20: the me feed lists exactly the questions the viewer authored under
\* role=author, exactly the questions the viewer answered under
\* role=respondent and exactly their union under role=all, whatever the
\* viewer's profile and whether or not the questions have expired.
C20_MeFeedMembership ==
    \A t \in Txs :
       (tx[t].pc = "done" /\ tx[t].op = "get_me_feed")
       => tx[t].feed =
             CASE tx[t].role = "author" -> Authored(tx[t].user)
               [] tx[t].role = "respondent" -> Answered(tx[t].user)
               [] OTHER -> Authored(tx[t].user) \cup Answered(tx[t].user)

\* user 1, a man, is handed with role=all a question for women that he
\* authored and an expired question of user 2 that he answered
C20_Witness ==
    /\ tx[1].pc = "done"
    /\ tx[1].op = "get_me_feed"
    /\ tx[1].role = "all"
    /\ tx[1].user = 1
    /\ clock > 1
    /\ \E q \in tx[1].feed :
          /\ questions[q].author_id = 1
          /\ ~GenderPasses(User(1), DeclaredBy(q, MeCreates).gender)
    /\ \E q \in tx[1].feed :
          /\ questions[q].author_id = 2
          /\ q \in Answered(1)
          /\ clock > questions[q].active_till

\* ------------------------------------------------- feed against submit
\* C21: a submit that has passed the idempotency and liveness checks fails
\* with DemographicMismatch exactly when the demographic conditions of the
\* default and other feeds leave the question out for that user, for every
\* filter shape: None, empty list, list, and every age around the range.
C21_FeedAndSubmitSameEligibility ==
    [][\A t \in Txs :
         (tx[t].pc = "get_question" /\ tx'[t] # tx[t] /\ Answerable(t))
         => ((tx'[t].result = "DemographicMismatch")
                <=> ~demography_conditions(User(tx[t].user),
                                           questions[tx[t].question_id],
                                           Today(clock)))]_vars

\* C22: at every instant, now = active_till included, a submit that has
\* passed the idempotency check on an existing question fails with
\* QuestionExpired exactly when the feed filter is_active=false keeps the
\* question, and goes on exactly when the filter is_active=true keeps it.
C22_SubmitAndFeedSameExpiry ==
    [][\A t \in Txs :
         (/\ tx[t].pc = "get_question"
          /\ tx'[t] # tx[t]
          /\ tx[t].question_id \in QuestionIds
          /\ questions[tx[t].question_id].exists)
         => /\ (tx'[t].result = "QuestionExpired")
                  <=> active_filter(questions[tx[t].question_id], "false", clock)
            /\ (tx'[t].result # "QuestionExpired")
                  <=> active_filter(questions[tx[t].question_id], "true", clock)]_vars

\* ------------------------------------------------------------ favourites
MAX_FAVORITE_HASHTAGS == 8

MaxHashtags == 9

HashtagIds == 1..MaxHashtags

\* select count() of the subscriber's hashtag subscriptions with favourite = true
current_favorites(user) ==
    Cardinality({s \in favourites : /\ s.subscriber_id = user
                                    /\ s.subscribed_to_type = "hashtag"})

\* SubscriptionRepository.unsubscribe
unsubscribe(user, subscribed_to_id, subscription_type) ==
    /\ Subscription(user, subscribed_to_id, subscription_type) \in subscriptions
    /\ subscriptions' = subscriptions \ {Subscription(user, subscribed_to_id, subscription_type)}
    /\ favourites' = favourites \ {Subscription(user, subscribed_to_id, subscription_type)}
    /\ UNCHANGED <<clock, questions, question_options, answers, answer_options,
                   question_seq, option_seq, answer_seq, locks, tx,
                   user_settings, question_hashtag_links>>

\* SubscriptionRepository.set_favorite down to the limit check (190-222):
\* the session has read the row and counted the favourites
set_favorite_begin(t, user, subscribed_to_id, subscription_type, is_favorite) ==
    LET subscription == Subscription(user, subscribed_to_id, subscription_type)
    IN /\ tx[t].pc = "idle"
       /\ IF subscription \notin subscriptions
          THEN Respond(t, "set_favorite", 0, user, "Missing")
          ELSE IF (subscription \in favourites) = is_favorite
          THEN Respond(t, "set_favorite", 0, user, "InvalidFavoriteOperation")
          ELSE IF /\ is_favorite
                  /\ subscription_type = "hashtag"
                  /\ current_favorites(user) >= MAX_FAVORITE_HASHTAGS
          THEN Respond(t, "set_favorite", 0, user, "MaxFavoritesReached")
          ELSE Step(t, [IdleTx EXCEPT !.pc = "set_favorite_commit",
                                      !.op = "set_favorite",
                                      !.user = user,
                                      !.subscribed_to_id = subscribed_to_id,
                                      !.subscription_type = subscription_type,
                                      !.is_favorite = is_favorite])

\* subscription.favourite = is_favorite; commit (224-225).  The UPDATE of a
\* row that was deleted in between matches nothing and the flush fails.
set_favorite_commit(t) ==
    LET subscription == Subscription(tx[t].user, tx[t].subscribed_to_id,
                                     tx[t].subscription_type)
    IN /\ tx[t].pc = "set_favorite_commit"
       /\ IF subscription \notin subscriptions
          THEN Respond(t, "set_favorite", 0, tx[t].user, "StaleData")
          ELSE /\ favourites' = IF tx[t].is_favorite
                                THEN favourites \cup {subscription}
                                ELSE favourites \ {subscription}
               /\ tx' = [tx EXCEPT ![t] = Response("set_favorite", 0, tx[t].user, "ok", "")]
               /\ UNCHANGED <<clock, questions, question_options, answers, answer_options,
                              question_seq, option_seq, answer_seq, locks,
                              subscriptions, user_settings, question_hashtag_links>>

\* user 1 follows the hashtags in ascending order and drops them in
\* descending order, and marks or unmarks any followed hashtag in two sessions
SubscribeNextHashtag ==
    \E h \in HashtagIds :
       /\ h = 1 \/ Subscription(1, h - 1, "hashtag") \in subscriptions
       /\ subscribe(1, h, "hashtag")

UnsubscribeLastHashtag ==
    \E h \in HashtagIds :
       /\ h = MaxHashtags \/ Subscription(1, h + 1, "hashtag") \notin subscriptions
       /\ unsubscribe(1, h, "hashtag")

SetFavorite(t) ==
    \E h \in HashtagIds, is_favorite \in BOOLEAN :
        set_favorite_begin(t, 1, h, "hashtag", is_favorite)

NextFav ==
    \/ SubscribeNextHashtag
    \/ UnsubscribeLastHashtag
    \/ \E t \in Txs : \/ SetFavorite(t)
                      \/ set_favorite_commit(t)
                      \/ close_session(t)

SpecFav == Init /\ [][NextFav]_vars

\* C23: a subscriber never has more than 8 hashtag subscriptions marked
\* favourite, whatever the sequence and interleaving of subscribe,
\* set_favorite and unsubscribe requests.
C23_AtMostEightFavourites ==
    \A u \in Users : current_favorites(u) <= MAX_FAVORITE_HASHTAGS

\* ------------------------------------------------------- appended options
\* a question of ceiling 1 or 2 with two options, a second question with its
\* own option, submissions to the first question and options appended to
\* the answers
AppendOptionLists == {<<1>>, <<2>>, <<1, 2>>, <<3>>}

PostSecondQuestion ==
    /\ question_seq = 1
    /\ PostQuestion

AppendOptions(t) ==
    \E a \in AnswerIds, u \in Users, option_ids \in AppendOptionLists :
        add_answer_options(t, a, option_ids, u)

NextAppend ==
    \/ (Quiet /\ PostSizeQuestion)
    \/ PostSecondQuestion
    \/ (Quiet /\ PostPlainAnswer(1))
    \/ PlainSteps(1)
    \/ (Quiet /\ AppendOptions(1))
    \/ close_session(1)

SpecAppend == Init /\ [][NextAppend]_vars

\* C24: after any sequence of submit and append-options requests every
\* committed Answer has at least one and at most max_options selected
\* options, all of them options of the Answer's question.
C24_SelectionWithinCeiling ==
    \A a \in CommittedAnswers :
       /\ Cardinality(SelectedBy(a.id)) >= 1
       /\ Cardinality(SelectedBy(a.id)) <= questions[a.question_id].max_options
       /\ \A o \in SelectedBy(a.id) : question_options[o].question_id = a.question_id

\* ------------------------------------------------- two questions in parallel
\* two open questions without filter, of one option each, that take custom
\* options; once both exist, session t submits to question t, session 1 for
\* user 1 and session 2 for user 1 or 2, its own option or the other
\* question's option, with or without a new text
ParCreates == {QuestionCreate(1, 2, MaxClock, TRUE, Null, Null, NoAge, <<1>>)}

PostParQuestion ==
    /\ Quiet
    /\ \E qc \in ParCreates : CreateQuestion(qc)

PostParAnswer(t) ==
    /\ questions[1].exists
    /\ questions[2].exists
    /\ \E u \in 1..t, options \in {<<t>>, <<3 - t>>}, new_options \in {<<>>, <<"X">>} :
          create_answer_begin(t, t, u, options, new_options)

NextPar ==
    \/ PostParQuestion
    \/ \E t \in Txs :
          \/ PostParAnswer(t)
          \/ PlainSteps(t)
          \/ OptionSteps(t)
          \/ close_session(t)

SpecPar == Init /\ [][NextPar]_vars

\* the committed tallies of a question are those of its own answers
TalliesOfOwnAnswers(q) ==
    /\ questions[q].total_answers =
          Cardinality({a \in CommittedAnswers : a.question_id = q})
    /\ \A o \in CommittedOptionsOf(q) :
          /\ question_options[o].count =
                Cardinality({ao \in CommittedAnswerOptions : ao.option_id = o})
          /\ CountSum(q) > 0 =>
                question_options[o].percentage =
                    [num |-> question_options[o].count * 100, den |-> CountSum(q)]

\* C25: while the sessions submit to different questions, the next statement
\* of a session can always run, whatever the other session holds, no
\* submission ends with an error it would not get alone, and the tallies of
\* each question are those of its own answers.
C25_DifferentQuestionsInParallel ==
    /\ \A t \in Txs : Active(t) => ENABLED (PlainSteps(t) \/ OptionSteps(t))
    /\ \A t \in Txs :
          tx[t].pc = "done" =>
             tx[t].result \in {"ok", "AlreadyAnswered", "Missing", "OptionMismatch",
                                "TooManyOptions"}
    /\ \A q \in QuestionIds : questions[q].exists => TalliesOfOwnAnswers(q)

\* session 2 has committed an answer with a new option to question 2, inserted
\* after the answer of session 1, which holds the locks on the options of
\* question 1 and has not committed
C25_Witness ==
    /\ tx[1].pc = "commit"
    /\ tx[1].new_options = <<"X">>
    /\ \E a \in answers : a.id = 1 /\ a.tx = 1 /\ a.question_id = 1
    /\ \E l \in locks : l.tx = 1 /\ l.tbl = "question_options" /\ l.mode = "Update"
    /\ tx[2].pc = "done"
    /\ tx[2].result = "ok"
    /\ tx[2].new_options = <<"X">>
    /\ \E a \in CommittedAnswers : a.id = 2 /\ a.question_id = 2 /\ a.user_id = tx[1].user
    /\ questions[2].total_answers = 1

\* ------------------------------------------------- positions of new options
\* one open question that takes custom options, whose only option is at
\* position 2; user t submits in session t one or two new texts, with or
\* without the existing option
PosCreates == {QuestionCreate(1, 2, MaxClock, TRUE, Null, Null, NoAge, <<2>>)}

PostPosQuestion ==
    /\ question_seq = 0
    /\ \E qc \in PosCreates : CreateQuestion(qc)

PostPosAnswer(t) ==
    /\ questions[1].exists
    /\ \E options \in {<<>>, <<1>>}, new_options \in {<<"X">>, <<"X", "Y">>} :
          create_answer_begin(t, 1, t, options, new_options)

NextPos ==
    \/ PostPosQuestion
    \/ \E t \in Txs :
          \/ PostPosAnswer(t)
          \/ PlainSteps(t)
          \/ OptionSteps(t)
          \/ close_session(t)

SpecPos == Init /\ [][NextPos]_vars

\* the positions of the options of q that session t sees
PositionsSeen(q, t) ==
    {question_options[o].position : o \in OptionsOfQuestion(q, t)}

LowestUnused(positions) ==
    CHOOSE p \in 1..(Cardinality(positions) + 1) :
        /\ p \notin positions
        /\ \A r \in 1..(p - 1) : r \in positions

UniquePositions ==
    \A o1, o2 \in OptionIds :
       (/\ question_options[o1].exists
        /\ question_options[o2].exists
        /\ question_options[o1].question_id = question_options[o2].question_id
        /\ question_options[o1].position = question_options[o2].position)
       => o1 = o2

\* C26: an option inserted for a new text takes the lowest position >= 1 that
\* no option of the question visible to the submission holds, its own earlier
\* new options included; positions stay unique per question, under two
\* concurrent submissions too; at the commit of the submission each of its
\* new options has count 1 and the percentage 100 / total of the question.
C26_NewOptionPositions ==
    [][/\ \A t \in Txs :
            (tx[t].pc = "create_option_flush" /\ option_seq' # option_seq
             /\ tx'[t] # tx[t])
            => /\ question_options'[option_seq'].tx = t
               /\ question_options'[option_seq'].question_id = tx[t].question_id
               /\ question_options'[option_seq'].position =
                     LowestUnused(PositionsSeen(tx[t].question_id, t))
       /\ \A t \in Txs :
            (tx[t].pc = "commit" /\ tx'[t].pc = "done" /\ tx'[t].result = "ok")
            => \A i \in 1..Len(tx[t].new_option_ids) :
                  LET o == tx[t].new_option_ids[i]
                  IN /\ question_options'[o].tx = 0
                     /\ question_options'[o].count = 1
                     /\ question_options'[o].percentage =
                           [num |-> 100, den |-> CountSum(tx[t].question_id)']
       /\ UniquePositions']_vars

\* two concurrent submissions with one new text each: the first has committed
\* its option at position 1 with count 1, the second was refused by the
\* uniqueness constraint
C26_Witness ==
    /\ tx[1].pc = "done"
    /\ tx[1].result = "ok"
    /\ tx[1].new_options = <<"X">>
    /\ tx[2].pc = "done"
    /\ tx[2].result = "IntegrityError"
    /\ tx[2].new_options = <<"X">>
    /\ \E o \in CommittedOptionsOf(1) :
          /\ question_options[o].position = 1
          /\ question_options[o].count = 1
          /\ question_options[o].author_id = 1
    /\ \A o \in OptionIds :
          question_options[o].exists => question_options[o].author_id = 1

\* ------------------------------------------------------------- pagination
FeedTypeEnum == {"default", "me", "other"}

SortOrderEnum == {"asc", "desc"}

MaxLimit == 2

MaxOffset == 1

\* QuestionORM.created_at: questions are inserted one at a time and each takes
\* the instant of its insert, so creation instants grow with the ids
created_at(q) == q

NoRow == 0

\* the outer joins of get_default_feed_paginated and of count_unanswered: the
\* rows <<question, hashtag, hashtag subscription, author subscription,
\* answer>>; NoRow stands for the NULLs of a side that found no row
joined_rows(current_user) ==
    LET hashtags(q) ==
            LET linked == {l.hashtag_id : l \in {k \in question_hashtag_links :
                                                   k.question_id = q}}
            IN  IF linked = {} THEN {NoRow} ELSE linked
        hashtag_subscription(h) ==
            IF \E s \in subscriptions : /\ s.subscribed_to_id = h
                                        /\ s.subscribed_to_type = "hashtag"
                                        /\ s.subscriber_id = current_user.id
            THEN h ELSE NoRow
        author_subscription(q) ==
            IF \E s \in subscriptions : /\ s.subscribed_to_id = questions[q].author_id
                                        /\ s.subscribed_to_type = "user"
                                        /\ s.subscriber_id = current_user.id
            THEN questions[q].author_id ELSE NoRow
        user_answers(q) ==
            LET found == {a.id : a \in {b \in CommittedAnswers :
                                          /\ b.question_id = q
                                          /\ b.user_id = current_user.id}}
            IN  IF found = {} THEN {NoAnswerId} ELSE found
    IN  UNION {{<<q, h, hashtag_subscription(h), author_subscription(q), a>> :
                   h \in hashtags(q), a \in user_answers(q)} :
               q \in {x \in QuestionIds : questions[x].exists}}

\* get_default_feed_paginated: the joined rows that the WHERE clause keeps
default_feed_rows(current_user, is_answered, is_active, now) ==
    {row \in joined_rows(current_user) :
        /\ row[3] # NoRow \/ row[4] # NoRow
        /\ demography_conditions(current_user, questions[row[1]], Today(now))
        /\ is_answered = "false" => row[5] = NoAnswerId
        /\ active_filter(questions[row[1]], is_active, now)}

\* ORDER BY created_at: the rows in ascending or descending creation order
RECURSIVE order_by(_, _)
order_by(rows, sort_order) ==
    IF rows = {} THEN <<>>
    ELSE LET first == CHOOSE r \in rows :
                         \A other \in rows :
                            IF sort_order = "asc"
                            THEN created_at(r[1]) <= created_at(other[1])
                            ELSE created_at(r[1]) >= created_at(other[1])
         IN  <<first>> \o order_by(rows \ {first}, sort_order)

\* the statement without its DISTINCT: one entry for each joined row
apply_sorting_and_pagination_all(rows, sort_order, limit, offset) ==
    LET ordered == order_by(rows, sort_order)
        last == IF offset + limit < Len(ordered) THEN offset + limit ELSE Len(ordered)
    IN  [i \in 1..(IF last > offset THEN last - offset ELSE 0) |-> ordered[offset + i][1]]

\* QuestionRepository._apply_sorting_and_pagination: SELECT DISTINCT of the
\* question columns, ORDER BY created_at, LIMIT and OFFSET
apply_sorting_and_pagination(rows, sort_order, limit, offset) ==
    LET ordered == order_by({<<row[1]>> : row \in rows}, sort_order)
        last == IF offset + limit < Len(ordered) THEN offset + limit ELSE Len(ordered)
    IN  [i \in 1..(IF last > offset THEN last - offset ELSE 0) |-> ordered[offset + i][1]]

\* QuestionService.get_question_feed: the page of the feed of the given type,
\* without filters, under role all, for the other feed that of user 2
get_question_feed(t, u, feed_type, sort_order, limit, offset) ==
    LET rows == CASE feed_type = "default" ->
                       default_feed_rows(User(u), "none", "none", clock)
                  [] feed_type = "me" -> me_feed_rows(User(u), "all")
                  [] OTHER -> {<<q>> : q \in other_feed(User(u), 2, "none", clock)}
        page == apply_sorting_and_pagination(rows, sort_order, limit, offset)
    IN  RespondFeed(t, [FeedResponse("get_question_feed", u,
                                     IF feed_type = "other" THEN 2 ELSE 0,
                                     "none", "none",
                                     IF feed_type = "me" THEN "all" ELSE "none",
                                     {row[1] : row \in rows})
                           EXCEPT !.feed_type = feed_type, !.sort_order = sort_order,
                                  !.limit = limit, !.offset = offset, !.page = page])

\* users 1 and 3 answer the questions of user 2
PostPageAnswer(t) ==
    \E u \in {1, 3}, q \in QuestionIds : create_answer_begin(t, q, u, <<q>>, <<>>)

\* user 1, the follower, asks for the default and the other feed; user 2,
\* the author, asks for the me feed
GetPage(t) ==
    \E feed_type \in FeedTypeEnum, sort_order \in SortOrderEnum,
       limit \in 1..MaxLimit, offset \in 0..MaxOffset :
        get_question_feed(t, IF feed_type = "me" THEN 2 ELSE 1,
                          feed_type, sort_order, limit, offset)

\* questions of user 2 for everybody, closing at instant 1, with one option
PageCreates == {QuestionCreate(2, 1, 1, FALSE, Null, Null, NoAge, <<1>>)}

PostPageQuestion ==
    /\ Quiet
    /\ question_seq < MaxFeedQuestions
    /\ \E qc \in PageCreates : CreateQuestion(qc)

\* user 1 follows hashtag 1, then hashtag 2, then the author
SubscribePage ==
    \/ subscribe(1, 1, "hashtag")
    \/ /\ \E s \in subscriptions : s.subscribed_to_id = 1 /\ s.subscribed_to_type = "hashtag"
       /\ subscribe(1, 2, "hashtag")
    \/ /\ \E s \in subscriptions : s.subscribed_to_id = 2 /\ s.subscribed_to_type = "hashtag"
       /\ subscribe(1, 2, "user")

\* the newest question is tagged with hashtags 1 and 2
LinkPage == bulk_create({1, 2}, question_seq)

NextPage ==
    \/ PostPageQuestion
    \/ (Quiet /\ LinkPage)
    \/ (Quiet /\ SubscribePage)
    \/ (Quiet /\ PostPageAnswer(1))
    \/ PlainSteps(1)
    \/ GetPage(1)
    \/ close_session(1)

SpecPage == Init /\ [][NextPage]_vars

\* C27: a page of any feed holds each question at most once, holds at most
\* limit questions, holds only questions of the feed, and is ordered by
\* creation time, descending unless ascending was requested
C27_PageDistinctBoundedOrdered ==
    \A t \in Txs :
        (tx[t].pc = "done" /\ tx[t].op = "get_question_feed") =>
            LET page == tx[t].page
            IN  /\ \A i, j \in 1..Len(page) : i # j => page[i] # page[j]
                /\ Len(page) <= tx[t].limit
                /\ \A i \in 1..Len(page) : page[i] \in tx[t].feed
                /\ \A i, j \in 1..Len(page) :
                      i < j => IF tx[t].sort_order = "asc"
                               THEN created_at(page[i]) <= created_at(page[j])
                               ELSE created_at(page[i]) >= created_at(page[j])

\* a default-feed page of two questions, the newest first, whose first
\* question matched through two followed hashtags and the followed author
C27_Witness ==
    /\ tx[1].pc = "done"
    /\ tx[1].op = "get_question_feed"
    /\ tx[1].feed_type = "default"
    /\ tx[1].sort_order = "desc"
    /\ tx[1].limit = 2
    /\ tx[1].offset = 0
    /\ tx[1].page = <<2, 1>>
    /\ Cardinality({row \in default_feed_rows(User(1), "none", "none", clock) :
                       row[1] = 2}) >= 2
    /\ \E s \in subscriptions : s.subscriber_id = 1 /\ s.subscribed_to_type = "user"

\* ------------------------------------------- submissions to one question
\* users 1 and 2, each in a session of its own, submit once to the first
\* question, which is open to everybody
PostSameAnswer(t) ==
    /\ questions[1].exists
    /\ \E body \in PlainAnswerCreates :
          create_answer_begin(t, 1, t, body.options, body.new_options)

NextSame ==
    \/ PostFirstQuestion
    \/ \E t \in Txs :
          \/ PostSameAnswer(t)
          \/ PlainSteps(t)
          \/ DeadlockAbort(t)

SpecSame == Init /\ [][NextSame]_vars

\* every session runs its next statement whenever no lock holds it back, and
\* the deadlock detector ends every wait cycle
SpecSameFair ==
    /\ SpecSame
    /\ \A t \in Txs : WF_vars(PlainSteps(t)) /\ WF_vars(DeadlockAbort(t))

\* C28: concurrent submissions of distinct eligible respondents to the same
\* question never deadlock: under fair scheduling every submission that has
\* started eventually commits
C28_EverySubmissionCommits ==
    \A t \in Txs : Active(t) ~> (tx[t].pc = "done" /\ tx[t].result = "ok")

\* ------------------------------------------------------ the answer total
\* users 1 and 2 submit to the first question, each in any session, and
\* delete their answers
PostCountAnswer(t) ==
    /\ questions[1].exists
    /\ \E u \in {1, 2}, body \in PlainAnswerCreates :
          create_answer_begin(t, 1, u, body.options, body.new_options)

DeleteCountAnswer(t) ==
    \E a \in AnswerIds, u \in {1, 2} : delete_answer(t, 1, a, u)

NextCount ==
    \/ PostFirstQuestion
    \/ \E t \in Txs :
          \/ PostCountAnswer(t)
          \/ PlainSteps(t)
          \/ DeadlockAbort(t)
          \/ DeleteCountAnswer(t)
          \/ close_session(t)

SpecCount == Init /\ [][NextCount]_vars

\* the committed Answer rows of a question
AnswerRows(q) == {a \in CommittedAnswers : a.question_id = q}

\* the step in which session t ends a request of the given kind
Ends(t, op) == tx[t].pc # "done" /\ tx'[t].pc = "done" /\ tx'[t].op = op

\* C29: total_answers follows the number of Answer rows through every step of
\* sequential and concurrent submissions (a committed submission adds 1 to
\* both, a failed one and every other statement adds 0 to both), and a
\* delete_answer that removes an Answer leaves total_answers and the count
\* and percentage of every option unchanged
C29_TotalAnswersFollowsSubmissions ==
    [][\A q \in QuestionIds :
          questions[q].exists =>
             LET grown == questions'[q].total_answers - questions[q].total_answers
                 added == Cardinality(AnswerRows(q)') - Cardinality(AnswerRows(q))
                 deleted == \E t \in Txs : /\ Ends(t, "delete_answer")
                                           /\ tx'[t].result = "ok"
             IN  /\ deleted => /\ grown = 0
                               /\ added = -1
                               /\ question_options' = question_options
                 /\ ~deleted => grown = added
                 /\ \A t \in Txs :
                       (Ends(t, "create_answer") /\ tx'[t].question_id = q)
                          => grown = IF tx'[t].result = "ok" THEN 1 ELSE 0]_vars

\* two submissions that ran side by side are both counted, and the answer of
\* user 1 has since been deleted: two in total_answers, one Answer row, and
\* the counts of both submissions still in place
C29_Witness ==
    /\ tx[1].pc = "done"
    /\ tx[1].op = "delete_answer"
    /\ tx[1].result = "ok"
    /\ tx[2].pc = "done"
    /\ tx[2].op = "create_answer"
    /\ tx[2].result = "ok"
    /\ questions[1].total_answers = 2
    /\ Cardinality(AnswerRows(1)) = 1
    /\ question_options[1].count = 2

\* ------------------------------------------------------ unanswered count
\* the number of joined rows the statement keeps, a question counted once
\* for each of its rows
count_unanswered_rows(current_user, now) ==
    Cardinality({row \in joined_rows(current_user) :
                    /\ row[3] # NoRow \/ row[4] # NoRow
                    /\ demography_conditions(current_user, questions[row[1]], Today(now))
                    /\ row[5] = NoAnswerId
                    /\ questions[row[1]].active_till > now})

\* QuestionRepository.count_unanswered: count(DISTINCT questions.id) over the
\* joined rows that the WHERE clause keeps
count_unanswered(current_user, now) ==
    Cardinality({row[1] : row \in
                    {r \in joined_rows(current_user) :
                        /\ r[3] # NoRow \/ r[4] # NoRow
                        /\ demography_conditions(current_user, questions[r[1]], Today(now))
                        /\ r[5] = NoAnswerId
                        /\ questions[r[1]].active_till > now}})

\* GET /questions/unanswered/count
get_unanswered_count(t, u) ==
    RespondFeed(t, [Response("get_unanswered_count", 0, u, "ok", "")
                       EXCEPT !.count = count_unanswered(User(u), clock)])

GetUnansweredCount(t) == \E u \in {1, 3} : get_unanswered_count(t, u)

\* the default feed of the questions still open and not yet answered
GetUnansweredFeed(t) ==
    \E u \in {1, 3} : get_default_feed_paginated(t, u, "false", "true")

NextUnanswered ==
    \/ PostDefaultQuestion
    \/ (Quiet /\ LinkHashtags)
    \/ (Quiet /\ Tick)
    \/ (Quiet /\ SubscribeDefault)
    \/ (Quiet /\ PostDefaultAnswer(1))
    \/ PlainSteps(1)
    \/ GetUnansweredCount(1)
    \/ GetUnansweredFeed(1)
    \/ close_session(1)

SpecUnanswered == Init /\ [][NextUnanswered]_vars

\* C30: the count of unanswered questions a viewer is given is the number of
\* distinct questions of the viewer's default feed under is_answered=false
\* and is_active=true, and the feed a viewer is given under these filters has
\* as many questions as count_unanswered counts
C30_CountIsUnansweredFeed ==
    \A t \in Txs :
        /\ (tx[t].pc = "done" /\ tx[t].op = "get_unanswered_count") =>
              tx[t].count =
                 Cardinality(default_feed(User(tx[t].user), "false", "true", clock))
        /\ (/\ tx[t].pc = "done"
            /\ tx[t].op = "get_default_feed"
            /\ tx[t].is_answered = "false"
            /\ tx[t].is_active = "true") =>
              Cardinality(tx[t].feed) = count_unanswered(User(tx[t].user), clock)

\* user 1 is told of one unanswered question: the second, which matches
\* through two followed hashtags, while the first is answered
C30_Witness ==
    /\ tx[1].pc = "done"
    /\ tx[1].op = "get_unanswered_count"
    /\ tx[1].user = 1
    /\ tx[1].count = 1
    /\ default_feed(User(1), "false", "true", clock) = {2}
    /\ Cardinality({row \in joined_rows(User(1)) : row[1] = 2 /\ row[3] # NoRow}) = 2
    /\ \E a \in CommittedAnswers : a.question_id = 1 /\ a.user_id = 1

====
